---- MODULE Spec2Model ----
(***************************************************************************)
(* ATQOS orchestration kernel: the durable store's task queue             *)
(* (internal/store), and the worker pool that drains it                   *)
(* (internal/engine/worker.go).                                           *)
(*                                                                         *)
(* Specification Spec is the worker pool started by Executor.Run against  *)
(* a seeded queue.  Every branch the worker's code takes is modelled:     *)
(* claim (select / conditional update in one serializable transaction),   *)
(* attempt creation, workspace preparation, validation-spec parsing, the  *)
(* agent call, validation, the two outcome writes, workspace release and  *)
(* the checkpoint gate with its re-collection pass.  In Spec the store    *)
(* writes whose error the worker discards (`_ = e.Store....`) take        *)
(* effect; ClaimNextTask fails when its transaction cannot be serialized  *)
(* and CreateAttempt may fail, the two errors the worker tests.           *)
(*                                                                         *)
(* DrainSpec is the same pool with fair worker goroutines and no fault,   *)
(* WriteFaultSpec the same pool with those discarded writes failing.      *)
(* RunSpec is a whole run of Command.Run (internal/app/command.go): run   *)
(* record, seeding, pool, terminal status, with Emit, plugin and store    *)
(* failures and cancellation of the context.  AdapterSpec is one call of  *)
(* an agent adapter's Invoke.  EmitSpec is concurrent calls of            *)
(* EventLog.Emit (internal/eventlog).  GateSpec is concurrent calls of    *)
(* checkpointTracker.ShouldRun, PassSpec those calls with the checkpoint  *)
(* passes they let through, InsertSpec the store's batch inserts,         *)
(* RecollectSpec a pool whose checkpoint passes find the same failure     *)
(* again and again.  ValidationRunSpec (runValidation), RunnerSpec        *)
(* (GenericRunner.Run), FingerprintSpec (the plugins' records) and        *)
(* ValidationJSONSpec (validation_json) apply one function each to        *)
(* inputs drawn in their initial states; ExecutorSpec is one call of      *)
(* Executor.Run by itself.  The specifications share the variables; each  *)
(* leaves at rest the part it is not about.                               *)
(***************************************************************************)
EXTENDS Integers, Sequences, FiniteSets, TLC

(***************************************************************************)
(* Bounds of the model.                                                   *)
(***************************************************************************)
\* largest max_workers value the configuration is drawn from
MaxWorkersCfg == 2
\* largest number of tasks seeded before the pool starts (per plugin)
MaxSeed == 2
\* largest number of tasks all checkpoint passes together may insert
MaxCheckpointTasks == 1
\* last instant of the wall clock (in checkpoint-interval units, minutes)
MaxClock == 1
\* longest command sequence of a validation spec
MaxCmds == 2
\* largest max_agent_workers value the configuration is drawn from
MaxAgentWorkersCfg == 1
\* largest task id in the requests and results given to an adapter
MaxAdapterTask == 1
\* largest max_workers value of the runs followed from Command.Run on
RunMaxWorkers == 1
\* largest number of findings (and tasks) a plugin produces when seeding
RunMaxPlan == 1
\* largest number of failing tests in one file of a pytest report
MaxTestsPerFile == 1
\* the same, for the reports of the runs followed from Command.Run on
RunMaxTestsPerFile == 2
\* number of workers that call checkpointTracker.ShouldRun concurrently
MaxGateCallers == 2
\* largest checkpoint_minutes a tracker is made with
MaxGateMinutes == 2
\* last instant of the clock read by ShouldRun, in minutes
MaxGateClock == 4
\* largest batch given to InsertFindings / InsertTasks
MaxBatch == 2
\* no batch insert is called once the two tables hold this many rows
MaxInsertRows == 3
\* no batch insert is called once this many transactions were begun
MaxTxs == 3
\* longest command sequence given to runValidation by itself
MaxValCmds == 3
\* largest Command.TimeoutSeconds given to GenericRunner.Run
MaxTimeoutSeconds == 1
\* longest time in seconds a started process runs if it is left alone
MaxProcSeconds == 2
\* largest exit code of a process
MaxExitCode == 2
\* last instant, in minutes, of the clock of a run with repeated checkpoint passes
MaxRecollectClock == 3
\* most tasks the checkpoint passes of such a run insert
MaxRecollected == 3
\* config.Default: RetryCap
RetryCap == 2
\* number of finding and task records kept side by side
MaxRecordsBuilt == 2
\* last instant at which a plugin builds a record
MaxBuildClock == 1
\* most commands of a validation spec that is marshalled
MaxSpecCmds == 2
\* largest CommandSpec.TimeoutSeconds and SuccessCriteria.MaxNewFindings
MaxSpecNumber == 1
\* largest max_workers value of the pools whose discarded writes may fail
WriteFaultMaxWorkers == 1
\* largest max_workers value Executor.Run is called with by itself
MaxExecutorWorkers == 4
\* number of goroutines that call EventLog.Emit concurrently
MaxEmitCallers == 2
\* Emit is no longer called once the file holds this many records
MaxRecords == 2
\* last instant of the clock read by Emit, in ticks
MaxEmitClock == 3

(***************************************************************************)
(* Program constants.                                                     *)
(***************************************************************************)
\* pytest Plugin.Plan: Priority of a "fix" task
PytestPriority == 100
\* coverage Plugin.Plan: Priority of an "add_test" task
CoveragePriority == 50
\* newCheckpointTracker: minutes <= 0 means 30
DefaultCheckpointMins == 30
\* runWorker: AttemptNo of the attempt record it creates
FirstAttemptNo == 1
\* pytest Plugin.Collect: its artifacts (report, junit, stdout, stderr)
PytestArtifacts == 4
\* coverage Plugin.Collect: its artifacts (report, stdout, stderr)
CoverageArtifacts == 3

\* The run id of the run the pool works for, and that of an earlier run
\* whose rows share the database file.
RunID == "run-a"
OtherRunID == "run-b"

VARIABLES
    cfg,          \* config.Config: max_workers, max_agent_workers, checkpoint_minutes
    tasks,        \* table tasks: sequence of rows, row id = index
    attempts,     \* table attempts: sequence of rows, row id = index
    runStatus,    \* runs.status of the run
    now,          \* wall clock
    lastRun,      \* checkpointTracker.lastRun
    pc,           \* per worker: position in runWorker
    task,         \* per worker: id of the task selected / held (0: none)
    stale,        \* per worker: a write was committed since its transaction's snapshot
    claimResult,  \* per worker: what its last ClaimNextTask returned
    attemptID,    \* per worker: attemptID local (0: none)
    agentRes,     \* per worker: (result, err) of Agent.Invoke
    valExit,      \* per worker: validationExit local
    valAllZero,   \* per worker: history - every validation command ran and exited 0
    workspaces,   \* task ids whose workspace is prepared and not yet finalized
    returned,     \* history: per task id, how often ClaimNextTask returned it
    inserted,     \* number of tasks inserted by checkpoint passes so far
    log,          \* event log of the run: the event types appended so far
    artifacts,    \* table artifacts: number of rows
    findings,     \* table findings: number of rows
    summary,      \* Command.Run: its core.Summary (Findings, Tasks)
    cpc,          \* Command.Run: its position
    cancelAt,     \* "none", or the position of Command.Run at which ctx was cancelled
    faults,       \* history: the kinds of error the run has met
    result,       \* what Command.Run returned: "none" (not yet), "ok" or "error"
    adIn,         \* agent adapter: the adapter, the request and what the child does
    adOut,        \* agent adapter: <<(Result, error)>> once Invoke has returned
    epc,          \* per caller of EventLog.Emit: its position in Emit
    mu,           \* EventLog.mu: the caller that holds it (0: unlocked)
    ets,          \* per caller: the TS string of the payload it built
    file,         \* the event log file: the chunks written, in file order
    eclock,       \* the clock time.Now reads in Emit, in ticks
    gpc,          \* per caller of ShouldRun: its position in ShouldRun
    gsince,       \* per caller: the time.Since(c.lastRun) it evaluated
    tracker,      \* the checkpointTracker: interval, lastRun, mu (holder, 0: free)
    gclock,       \* the clock ShouldRun reads, in minutes
    grants,       \* history: the instants at which ShouldRun set lastRun and returned true
    ins,          \* a batch insert: the call, its position, what the store was, its result
    txs,          \* store: transactions begun and committed so far
    rv,           \* a call of runValidation: the commands' runs, the loop's position, exitCode
    rn,           \* a call of GenericRunner.Run: the command, what the system does, the return
    built,        \* the finding and task records the plugins have built, in order
    vj,           \* a validation spec on its way through validation_json
    ex            \* a call of Executor.Run: its loop, its WaitGroup, its goroutines

vars == <<cfg, tasks, attempts, runStatus, now, lastRun, pc, task, stale,
          claimResult, attemptID, agentRes, valExit, valAllZero, workspaces,
          returned, inserted, log, artifacts, findings, summary, cpc, cancelAt,
          faults, result, adIn, adOut, epc, mu, ets, file, eclock,
          gpc, gsince, tracker, gclock, grants, ins, txs, rv, rn, built, vj, ex>>

storeVars == <<tasks, attempts, runStatus>>
localVars == <<attemptID, agentRes, valExit, valAllZero>>

\* what the worker pool does not touch
adapterVars == <<adIn, adOut>>
cmdVars == <<cpc, cancelAt, faults, result>>
emitVars == <<epc, mu, ets, file, eclock>>
gateVars == <<gpc, gsince, tracker, gclock, grants>>
insertVars == <<ins, txs>>
fnVars == <<rv, rn, built, vj, ex>>
envVars == <<adapterVars, cmdVars, emitVars, gateVars, insertVars, fnVars>>
\* what a checkpoint pass does not touch of these
passVars == <<adapterVars, emitVars, gateVars, insertVars, fnVars, cpc, cancelAt, result>>

\* what of the store and of the event log only a checkpoint pass touches
seedVars == <<log, artifacts, findings, summary>>

(***************************************************************************)
(* Executor.Run: the worker set and the worker ids.                       *)
(***************************************************************************)
\* workers := MaxWorkers; if workers < 1 { workers = 1 }
NumWorkers == IF cfg.max_workers < 1 THEN 1 ELSE cfg.max_workers

Workers == 1..NumWorkers

\* fmt.Sprintf("worker-%d", workerID)
WorkerID(i) == "worker-" \o ToString(i)

(***************************************************************************)
(* Plugin.Plan: the task rows a plugin plans at instant t.                *)
(***************************************************************************)
\* hashTask: sha256 of tool + ":" + key, one value per (tool, key)
hashTask(tool, key) == <<tool, key>>

NewTask(run, prio, fp, t) ==
    [run_id |-> run, priority |-> prio, status |-> "queued",
     claimed_by |-> "", created_at |-> t, fingerprint |-> fp]

\* pytest Plugin.Plan: one "fix" task per file with failing tests, the
\* files in sorted order (file i of the repository is the key i); Status
\* "queued", CreatedAt now
PytestPlan(n, t) ==
    [i \in 1..n |-> NewTask(RunID, PytestPriority, hashTask("pytest", i), t)]

\* coverage Plugin.Plan: one "add_test" task per file below the
\* threshold, in sorted order; Status "queued", CreatedAt now
CoveragePlan(n, t) ==
    [i \in 1..n |-> NewTask(RunID, CoveragePriority, hashTask("coverage", i), t)]

\* faulty variant: an insert that skips a task whose fingerprint the run has
InsertTasksDedup(rows, batch) ==
    rows \o SelectSeq(batch, LAMBDA r :
                ~\E i \in 1..Len(rows) : /\ rows[i].run_id = r.run_id
                                           /\ rows[i].fingerprint = r.fingerprint)

\* InsertTasks: one INSERT per task of the batch, in order, in one
\* transaction; no column is unique but the id
InsertTasks(rows, batch) == rows \o batch

\* Plugin.Normalize: how many findings can stand behind n planned tasks.
\* pytest has one finding per failing test and one task per file of such
\* tests; coverage has one finding and one task per file.
FindingCounts(tool, n, perFile) ==
    IF tool = "pytest" THEN n..(n * perFile) ELSE {n}

(***************************************************************************)
(* SQLiteStore: the statements of the store as operators on the tables.   *)
(***************************************************************************)
TaskIDs == 1..Len(tasks)

\* WHERE run_id = ? AND status = 'queued'
Queued(run) ==
    {i \in TaskIDs : tasks[i].run_id = run /\ tasks[i].status = "queued"}

\* faulty variant: ORDER BY created_at ASC, the priority left out
SortsBeforeOldestFirst(i, j) == tasks[i].created_at <= tasks[j].created_at

\* faulty variant: ORDER BY priority DESC, created_at DESC
SortsBeforeNewestFirst(i, j) ==
    \/ tasks[i].priority > tasks[j].priority
    \/ /\ tasks[i].priority = tasks[j].priority
       /\ tasks[i].created_at >= tasks[j].created_at

\* ORDER BY priority DESC, created_at ASC: i sorts no later than j
SortsBefore(i, j) ==
    \/ tasks[i].priority > tasks[j].priority
    \/ /\ tasks[i].priority = tasks[j].priority
       /\ tasks[i].created_at <= tasks[j].created_at

\* faulty variant: the SELECT without its run_id condition
SelectNextAnyRun(run) ==
    LET q == {i \in TaskIDs : tasks[i].status = "queued"}
    IN  {i \in q : \A j \in q : SortsBefore(i, j)}

\* The rows the SELECT ... LIMIT 1 of ClaimNextTask may return (one of the
\* first rows of the order; the order among equal keys is the engine's).
SelectNext(run) ==
    {i \in Queued(run) : \A j \in Queued(run) : SortsBefore(i, j)}

\* faulty variant: the UPDATE without its claimed_by assignment
ClaimRowsNoClaimant(t, id, worker) ==
    IF t[id].status = "queued"
    THEN [t EXCEPT ![id].status = "running"]
    ELSE t

\* UPDATE tasks SET status = 'running', claimed_by = ? WHERE id = ? AND status = 'queued'
ClaimRows(t, id, worker) ==
    IF t[id].status = "queued"
    THEN [t EXCEPT ![id].status = "running", ![id].claimed_by = worker]
    ELSE t

\* UpdateTaskStatus: UPDATE tasks SET status = ? WHERE id = ?
UpdateTaskStatusRows(t, id, status) ==
    [i \in 1..Len(t) |-> IF i = id THEN [t[i] EXCEPT !.status = status] ELSE t[i]]

\* faulty variant: the attempt record with AttemptNo left at its zero value
NewAttemptUnnumbered(taskID) ==
    [task_id |-> taskID, attempt_no |-> FirstAttemptNo - 1, status |-> "running"]

\* The attempt record runWorker builds for a claimed task.
NewAttempt(taskID) ==
    [task_id |-> taskID, attempt_no |-> FirstAttemptNo, status |-> "running"]

\* FinishAttempt: UPDATE attempts SET status = ? WHERE id = ?  (the row's
\* other columns are not read by the kernel and are left out of the model)
FinishAttemptRows(a, id, status) ==
    [i \in 1..Len(a) |-> IF i = id THEN [a[i] EXCEPT !.status = status] ELSE a[i]]

\* faulty variant: the transaction is not isolated, a stale snapshot goes unnoticed
TxConflictUnnoticed(w) == FALSE

\* BeginTx(LevelSerializable): the transaction cannot write once another
\* write was committed after its snapshot; its UPDATE or COMMIT fails.
TxConflict(w) == stale[w]

\* A committed write by worker w ends the snapshot of every other worker
\* that is between the SELECT and the UPDATE of its claim transaction.
StaleAfterWrite(w) ==
    [v \in Workers |-> IF v # w /\ pc[v] = "claim_update" THEN TRUE ELSE stale[v]]

(***************************************************************************)
(* The agent and the validation commands: what they may answer.           *)
(***************************************************************************)
\* agentReq.AllowedPaths (config default) and agentReq.ReadOnlyPaths
AllowedPaths == {"src", "tests"}
ReadOnlyPaths == {".git", "artifacts"}

\* agentRes before Agent.Invoke has returned
NoResult == [err |-> FALSE, status |-> "none", files |-> {}]

\* (Result, error) pairs of Agent.Invoke: an error comes with the zero
\* Result; otherwise the result carries the agent's self-report (status)
\* and the paths its change set touches (files).
AgentResults ==
    { [err |-> TRUE,  status |-> "",        files |-> {}],
      [err |-> FALSE, status |-> "success", files |-> {"src"}],
      [err |-> FALSE, status |-> "failure", files |-> {"src"}],
      [err |-> FALSE, status |-> "success", files |-> {".git"}] }

\* (ExecResult.ExitCode, err) of one Runner.Run under AllowNonZero
CmdResults ==
    { [exit |-> 0, err |-> FALSE],
      [exit |-> 1, err |-> FALSE],
      [exit |-> 0, err |-> TRUE] }

\* the runs of a validation spec's command sequence
CmdRuns == UNION {[1..n -> CmdResults] : n \in 0..MaxCmds}

\* faulty variant: the exit code of the last command alone decides
ValidationStepLastWins(exitCode, r) ==
    IF r.err THEN 1 ELSE r.exit

\* runValidation: the loop body for one command
ValidationStep(exitCode, r) ==
    LET afterErr == IF r.err THEN 1 ELSE exitCode
    IN  IF r.exit # 0 THEN r.exit ELSE afterErr

\* runValidation: exitCode := 0, then the loop over the commands
RECURSIVE ValidationFrom(_, _, _)
ValidationFrom(exitCode, rs, i) ==
    IF i > Len(rs) THEN exitCode
    ELSE ValidationFrom(ValidationStep(exitCode, rs[i]), rs, i + 1)

runValidation(rs) == ValidationFrom(0, rs, 1)

\* faulty variant: a result that reports success is believed
AttemptStatusTrustReport(res, validationExit) ==
    IF res.err \/ (validationExit # 0 /\ res.status # "success")
    THEN "failed" ELSE "succeeded"

\* runWorker: status := "succeeded"; if agentErr != nil || validationExit != 0
\* { status = "failed" }.  res is the (result, agentErr) pair of Agent.Invoke,
\* of which the worker keeps agentErr.
AttemptStatus(res, validationExit) ==
    IF res.err \/ validationExit # 0 THEN "failed" ELSE "succeeded"

\* faulty variant: a failed attempt puts the task back in the queue
TaskStatusRequeue(status) ==
    IF status = "succeeded" THEN "succeeded" ELSE "queued"

\* runWorker: the task status written for an attempt status
TaskStatusFor(status) ==
    IF status = "succeeded" THEN "succeeded" ELSE "blocked"

\* newCheckpointTracker: the interval, in minutes
Interval ==
    IF cfg.checkpoint_minutes <= 0 THEN DefaultCheckpointMins
    ELSE cfg.checkpoint_minutes

(***************************************************************************)
(* The agent adapters (internal/agent): Invoke as a function of the       *)
(* request and of what the child process does.                            *)
(***************************************************************************)
\* agent.Request: the fields the adapters compare (runWorker sets
\* SchemaVersion 1, the run id and the task id)
AdapterRequests ==
    [schema : {1}, run : {RunID, OtherRunID}, task : 0..MaxAdapterTask]

\* agent.Result as a child may print it
ChildResults ==
    [schema : {1, 2}, run : {RunID, OtherRunID}, task : 0..MaxAdapterTask,
     status : {"success"}]

\* what the child process does: exits non-zero (cmd.Run fails), prints
\* something that does not decode, or prints a Result
ChildBehaviours ==
    [exit_ok : BOOLEAN, decodes : BOOLEAN, result : ChildResults]

\* the Result zero value, returned with every error
ZeroResult == [schema |-> 0, run |-> "", task |-> 0, status |-> ""]

AdapterError == [err |-> TRUE, result |-> ZeroResult]

\* CodexCLIAdapter.Invoke
CodexInvoke(command_set, req, child) ==
    IF ~command_set THEN AdapterError
    ELSE IF ~child.exit_ok THEN AdapterError
    ELSE IF ~child.decodes THEN AdapterError
    ELSE IF child.result.schema # req.schema THEN AdapterError
    ELSE IF child.result.run # req.run \/ child.result.task # req.task
         THEN AdapterError
    ELSE [err |-> FALSE, result |-> child.result]

\* CommandAdapter.Invoke
CommandInvoke(command_set, req, child) ==
    IF ~command_set THEN AdapterError
    ELSE IF ~child.exit_ok THEN AdapterError
    ELSE IF ~child.decodes THEN AdapterError
    ELSE [err |-> FALSE, result |-> child.result]

\* LocalAdapter.Invoke: no child process
LocalInvoke(req) ==
    IF req.task = 0 THEN AdapterError
    ELSE [err |-> FALSE,
          result |-> [schema |-> req.schema, run |-> req.run,
                      task |-> req.task, status |-> "success"]]

\* Agent.Invoke of the adapter selectAgentAdapter returns
Invoke(in) ==
    CASE in.adapter = "codex" -> CodexInvoke(in.command_set, in.req, in.child)
      [] in.adapter = "cli"   -> CommandInvoke(in.command_set, in.req, in.child)
      [] OTHER                -> LocalInvoke(in.req)

AdapterInputs ==
    [adapter : {"codex", "cli", "local"}, command_set : BOOLEAN,
     req : AdapterRequests, child : ChildBehaviours]

\* no adapter call is being looked at
AdapterIdle ==
    /\ adIn = [adapter |-> "none"]
    /\ adOut = <<>>

(***************************************************************************)
(* The checkpointTracker by itself, and the callers of its ShouldRun.     *)
(***************************************************************************)
GateCallers == 1..MaxGateCallers

\* newCheckpointTracker(minutes) at instant t
NewTracker(minutes, t) ==
    [interval |-> IF minutes <= 0 THEN DefaultCheckpointMins ELSE minutes,
     lastRun |-> t,
     mu |-> 0]

\* a tracker just made, nobody in ShouldRun
GateIdle ==
    /\ gpc = [c \in GateCallers |-> "idle"]
    /\ gsince = [c \in GateCallers |-> 0]
    /\ tracker = NewTracker(0, 0)
    /\ gclock = 0
    /\ grants = <<>>

(***************************************************************************)
(* The store's batch inserts by themselves.                               *)
(***************************************************************************)
\* no batch insert under way
InsertIdle ==
    /\ ins = [at |-> "idle"]
    /\ txs = [begun |-> 0, committed |-> 0]

\* no function is being applied by itself
FnIdle ==
    /\ rv = [at |-> "idle"]
    /\ rn = [at |-> "idle"]
    /\ built = <<>>
    /\ vj = [at |-> "idle"]
    /\ ex = [at |-> "idle"]

(***************************************************************************)
(* The callers of EventLog.Emit.                                          *)
(***************************************************************************)
EmitCallers == 1..MaxEmitCallers

\* nobody is in Emit: a freshly opened log (eventlog.New), empty file
EmitIdle ==
    /\ epc = [c \in EmitCallers |-> "idle"]
    /\ mu = 0
    /\ ets = [c \in EmitCallers |-> 0]
    /\ file = <<>>
    /\ eclock = 0

(***************************************************************************)
(* Initial state: the store as Command.Run leaves it when it calls        *)
(* Executor.Run (run record "running", the pytest tasks planned first,    *)
(* then the coverage tasks), possibly after the queued task of an earlier *)
(* run in the same database file; and the pool as Executor.Run starts it. *)
(***************************************************************************)
Configs ==
    [max_workers : 0..MaxWorkersCfg,
     max_agent_workers : 1..MaxAgentWorkersCfg,
     checkpoint_minutes : {0, 1}]

\* the events Command.Run has logged when it calls Executor.Run (each of
\* its Emit calls succeeded, or it would have returned)
SeedingEvents ==
    {"run_started", "collect_started", "collect_finished",
     "normalize_finished", "plan_finished"}

\* The database file is shared by the runs: a queued row of an earlier run.
EarlierRows == <<NewTask(OtherRunID, PytestPriority, hashTask("pytest", 1), 0)>>

Init ==
    /\ cfg \in Configs
    /\ \E np \in 0..MaxSeed, nc \in 0..MaxSeed :
          /\ np + nc <= MaxSeed
          /\ tasks = EarlierRows \o PytestPlan(np, 0) \o CoveragePlan(nc, 0)
          /\ \E fp \in FindingCounts("pytest", np, MaxTestsPerFile) :
                /\ findings = fp + nc
                /\ summary = [Findings |-> fp + nc, Tasks |-> np + nc]
    /\ attempts = <<>>
    /\ runStatus = "running"
    /\ now = 0
    /\ lastRun = 0
    /\ pc = [w \in Workers |-> "claim"]
    /\ task = [w \in Workers |-> 0]
    /\ stale = [w \in Workers |-> FALSE]
    /\ claimResult = [w \in Workers |-> "pending"]
    /\ attemptID = [w \in Workers |-> 0]
    /\ agentRes = [w \in Workers |-> NoResult]
    /\ valExit = [w \in Workers |-> 0]
    /\ valAllZero = [w \in Workers |-> TRUE]
    /\ workspaces = {}
    /\ returned = [i \in 1..Len(tasks) |-> 0]
    /\ inserted = 0
    /\ log = SeedingEvents
    /\ artifacts = PytestArtifacts + CoverageArtifacts
    /\ cpc = "executor"
    /\ cancelAt = "none"
    /\ faults = {}
    /\ result = "none"
    /\ AdapterIdle
    /\ EmitIdle
    /\ GateIdle
    /\ InsertIdle
    /\ FnIdle

(***************************************************************************)
(* ClaimNextTask, in the two steps of its transaction.                    *)
(***************************************************************************)
\* BeginTx and the SELECT: no row (ErrNoRows) returns (nil, nil) and the
\* worker leaves its loop; a row is scanned and the UPDATE follows.
ClaimSelect(w) ==
    /\ pc[w] = "claim"
    /\ IF SelectNext(RunID) = {}
       THEN /\ claimResult' = [claimResult EXCEPT ![w] = "none"]
            /\ pc' = [pc EXCEPT ![w] = "exited"]
            /\ UNCHANGED <<task, stale>>
       ELSE /\ \E t \in SelectNext(RunID) : task' = [task EXCEPT ![w] = t]
            /\ stale' = [stale EXCEPT ![w] = FALSE]
            /\ pc' = [pc EXCEPT ![w] = "claim_update"]
            /\ claimResult' = [claimResult EXCEPT ![w] = "pending"]
    /\ UNCHANGED <<cfg, envVars, seedVars, storeVars, now, lastRun, localVars, workspaces,
                   returned, inserted>>

\* The conditional UPDATE and the COMMIT.  A transaction whose snapshot is
\* stale fails, and ClaimNextTask returns the error; otherwise the UPDATE
\* runs, the transaction commits and the scanned task is returned.
ClaimUpdate(w) ==
    /\ pc[w] = "claim_update"
    /\ IF TxConflict(w)
       THEN /\ claimResult' = [claimResult EXCEPT ![w] = "error"]
            /\ pc' = [pc EXCEPT ![w] = "exited"]
            /\ task' = [task EXCEPT ![w] = 0]
            /\ stale' = [stale EXCEPT ![w] = FALSE]
            /\ UNCHANGED <<tasks, returned>>
       ELSE /\ tasks' = ClaimRows(tasks, task[w], WorkerID(w))
            /\ stale' = StaleAfterWrite(w)
            /\ returned' = [returned EXCEPT ![task[w]] = @ + 1]
            /\ claimResult' = [claimResult EXCEPT ![w] = "task"]
            /\ pc' = [pc EXCEPT ![w] = "attempt"]
            /\ UNCHANGED task
    /\ UNCHANGED <<cfg, envVars, seedVars, attempts, runStatus, now, lastRun, localVars,
                   workspaces, inserted>>

(***************************************************************************)
(* runWorker after a successful claim.                                    *)
(***************************************************************************)
\* CreateAttempt succeeds: the attempt row is inserted, its id kept.
CreateAttemptOk(w) ==
    /\ pc[w] = "attempt"
    /\ attempts' = Append(attempts, NewAttempt(task[w]))
    /\ attemptID' = [attemptID EXCEPT ![w] = Len(attempts) + 1]
    /\ stale' = StaleAfterWrite(w)
    /\ pc' = [pc EXCEPT ![w] = "prepare"]
    /\ UNCHANGED <<cfg, envVars, seedVars, tasks, runStatus, now, lastRun, task, claimResult,
                   agentRes, valExit, valAllZero, workspaces, returned, inserted>>

\* CreateAttempt fails: the task is marked blocked and the worker returns.
CreateAttemptErr(w) ==
    /\ pc[w] = "attempt"
    /\ tasks' = UpdateTaskStatusRows(tasks, task[w], "blocked")
    /\ stale' = StaleAfterWrite(w)
    /\ pc' = [pc EXCEPT ![w] = "exited"]
    /\ task' = [task EXCEPT ![w] = 0]
    /\ UNCHANGED <<cfg, envVars, seedVars, attempts, runStatus, now, lastRun, claimResult,
                   localVars, workspaces, returned, inserted>>

\* PrepareWorkspace succeeds.
PrepareWorkspaceOk(w) ==
    /\ pc[w] = "prepare"
    /\ workspaces' = workspaces \cup {task[w]}
    /\ pc' = [pc EXCEPT ![w] = "parse"]
    /\ UNCHANGED <<cfg, envVars, seedVars, storeVars, now, lastRun, task, stale, claimResult,
                   localVars, returned, inserted>>

\* PrepareWorkspace fails: the task is marked blocked; the attempt is
\* closed next (FailFinish).
PrepareWorkspaceErr(w) ==
    /\ pc[w] = "prepare"
    /\ tasks' = UpdateTaskStatusRows(tasks, task[w], "blocked")
    /\ stale' = StaleAfterWrite(w)
    /\ pc' = [pc EXCEPT ![w] = "fail_finish"]
    /\ UNCHANGED <<cfg, envVars, seedVars, attempts, runStatus, now, lastRun, task, claimResult,
                   localVars, workspaces, returned, inserted>>

\* validationSpec(task.ValidationJSON) parses; the request is built and
\* the worker enters Agent.Invoke.
ParseValidationOk(w) ==
    /\ pc[w] = "parse"
    /\ pc' = [pc EXCEPT ![w] = "agent"]
    /\ UNCHANGED <<cfg, envVars, seedVars, storeVars, now, lastRun, task, stale, claimResult,
                   localVars, workspaces, returned, inserted>>

\* validationSpec fails: the task is marked blocked; the attempt is closed
\* next (FailFinish).  The workspace is not finalized on this path.
ParseValidationErr(w) ==
    /\ pc[w] = "parse"
    /\ tasks' = UpdateTaskStatusRows(tasks, task[w], "blocked")
    /\ stale' = StaleAfterWrite(w)
    /\ pc' = [pc EXCEPT ![w] = "fail_finish"]
    /\ UNCHANGED <<cfg, envVars, seedVars, attempts, runStatus, now, lastRun, task, claimResult,
                   localVars, workspaces, returned, inserted>>

\* FinishAttempt(attemptID, "failed", ..., 1) of the two failure paths,
\* after which the worker returns.
FailFinish(w) ==
    /\ pc[w] = "fail_finish"
    /\ attempts' = FinishAttemptRows(attempts, attemptID[w], "failed")
    /\ stale' = StaleAfterWrite(w)
    /\ pc' = [pc EXCEPT ![w] = "exited"]
    /\ task' = [task EXCEPT ![w] = 0]
    /\ attemptID' = [attemptID EXCEPT ![w] = 0]
    /\ UNCHANGED <<cfg, envVars, seedVars, tasks, runStatus, now, lastRun, claimResult, agentRes,
                   valExit, valAllZero, workspaces, returned, inserted>>

\* Agent.Invoke returns one of the given (result, agentErr) pairs; the
\* worker keeps agentErr only.
InvokeReturnFrom(w, results) ==
    /\ pc[w] = "agent"
    /\ \E r \in results : agentRes' = [agentRes EXCEPT ![w] = r]
    /\ pc' = [pc EXCEPT ![w] = "validate"]
    /\ UNCHANGED <<cfg, envVars, seedVars, storeVars, now, lastRun, task, stale, claimResult,
                   attemptID, valExit, valAllZero, workspaces, returned, inserted>>

\* faulty variant: the worker takes the agent's return for the outcome
\* and goes on to the status update without running the validation
InvokeReturnUnvalidated(w) ==
    /\ pc[w] = "agent"
    /\ \E r \in AgentResults : agentRes' = [agentRes EXCEPT ![w] = r]
    /\ pc' = [pc EXCEPT ![w] = "update"]
    /\ UNCHANGED <<cfg, envVars, seedVars, storeVars, now, lastRun, task, stale, claimResult,
                   attemptID, valExit, valAllZero, workspaces, returned, inserted>>

InvokeReturn(w) == InvokeReturnFrom(w, AgentResults)

\* runValidation over the spec's commands (one of the given runs),
\* whatever the agent returned, then FinishAttempt(attemptID, status, "",
\* validationExit).  The validation run touches nothing the other workers
\* read, so it is taken in one step with the write that follows it.
ValidateAndFinishFrom(w, runs) ==
    /\ pc[w] = "validate"
    /\ \E rs \in runs :
          /\ valExit' = [valExit EXCEPT ![w] = runValidation(rs)]
          /\ valAllZero' = [valAllZero EXCEPT ![w] =
                 \A i \in 1..Len(rs) : ~rs[i].err /\ rs[i].exit = 0]
          /\ attempts' = FinishAttemptRows(attempts, attemptID[w],
                 AttemptStatus(agentRes[w], runValidation(rs)))
    /\ stale' = StaleAfterWrite(w)
    /\ pc' = [pc EXCEPT ![w] = "update"]
    /\ UNCHANGED <<cfg, envVars, seedVars, tasks, runStatus, now, lastRun, task, claimResult,
                   attemptID, agentRes, workspaces, returned, inserted>>

ValidateAndFinish(w) == ValidateAndFinishFrom(w, CmdRuns)

\* UpdateTaskStatus(task.ID, "succeeded" or "blocked", "")
UpdateTask(w) ==
    /\ pc[w] = "update"
    /\ tasks' = UpdateTaskStatusRows(tasks, task[w],
                    TaskStatusFor(AttemptStatus(agentRes[w], valExit[w])))
    /\ stale' = StaleAfterWrite(w)
    /\ pc' = [pc EXCEPT ![w] = "finalize"]
    /\ UNCHANGED <<cfg, envVars, seedVars, attempts, runStatus, now, lastRun, task, claimResult,
                   localVars, workspaces, returned, inserted>>

\* FinalizeWorkspace; the iteration's locals go out of use.
FinalizeWorkspace(w) ==
    /\ pc[w] = "finalize"
    /\ workspaces' = workspaces \ {task[w]}
    /\ pc' = [pc EXCEPT ![w] = "gate"]
    /\ task' = [task EXCEPT ![w] = 0]
    /\ attemptID' = [attemptID EXCEPT ![w] = 0]
    /\ agentRes' = [agentRes EXCEPT ![w] = NoResult]
    /\ valExit' = [valExit EXCEPT ![w] = 0]
    /\ valAllZero' = [valAllZero EXCEPT ![w] = TRUE]
    /\ UNCHANGED <<cfg, envVars, seedVars, storeVars, now, lastRun, stale, claimResult,
                   returned, inserted>>

(***************************************************************************)
(* The checkpoint gate and the checkpoint pass.  Time passes between the  *)
(* steps; the model lets it pass where the clock is read.                 *)
(***************************************************************************)
\* checkpointTracker.ShouldRun, under its mutex: at instant t, false when
\* less than the interval has passed since lastRun; else lastRun is set
\* to the instant read next, and the pass runs.
ShouldRun(w) ==
    /\ pc[w] = "gate"
    /\ \E t \in now..MaxClock :
          IF t - lastRun < Interval
          THEN /\ now' = t
               /\ pc' = [pc EXCEPT ![w] = "claim"]
               /\ UNCHANGED lastRun
          ELSE /\ \E t2 \in t..MaxClock : now' = t2 /\ lastRun' = t2
               /\ pc' = [pc EXCEPT ![w] = "ckpt_pytest"]
    /\ UNCHANGED <<cfg, envVars, seedVars, storeVars, task, stale, claimResult, localVars,
                   workspaces, returned, inserted>>

\* runCheckpoint: plugin.Plan of the plugin with the given ID
PluginPlan(tool, n, t) ==
    IF tool = "pytest" THEN PytestPlan(n, t) ELSE CoveragePlan(n, t)

\* the number of artifacts plugin.Collect of that plugin returns
ArtifactsOf(tool) ==
    IF tool = "pytest" THEN PytestArtifacts ELSE CoverageArtifacts

\* runCheckpoint, one plugin: collect, AddArtifact of each artifact (each
\* a committed write), normalize, InsertFindings, plan at instant t and
\* InsertTasks of the n planned tasks.
CheckpointPlugin(w, at, tool, next) ==
    /\ pc[w] = at
    /\ \E t \in now..MaxClock, n \in 0..(MaxCheckpointTasks - inserted) :
          /\ now' = t
          /\ tasks' = InsertTasks(tasks, PluginPlan(tool, n, t))
          /\ returned' = returned \o [i \in 1..(Len(tasks') - Len(tasks)) |-> 0]
          /\ inserted' = inserted + n
          /\ \E f \in FindingCounts(tool, n, MaxTestsPerFile) :
                findings' = findings + f
    /\ artifacts' = artifacts + ArtifactsOf(tool)
    /\ stale' = StaleAfterWrite(w)
    /\ pc' = [pc EXCEPT ![w] = next]
    /\ UNCHANGED <<cfg, passVars, summary, attempts, runStatus, lastRun, task, claimResult,
                   localVars, workspaces>>

\* the pass begins with Emit(checkpoint_started) and the first plugin
CheckpointPytest(w) ==
    /\ CheckpointPlugin(w, "ckpt_pytest", "pytest", "ckpt_coverage")
    /\ log' = log \cup {"checkpoint_started"}
    /\ UNCHANGED faults

\* the last plugin, and Emit(checkpoint_finished), which may fail
CheckpointCoverage(w) ==
    /\ CheckpointPlugin(w, "ckpt_coverage", "coverage", "claim")
    /\ \/ /\ log' = log \cup {"checkpoint_finished"}
          /\ UNCHANGED faults
       \/ /\ log' = log
          /\ faults' = faults \cup {"emit"}

\* runCheckpoint returns early on an event-log, plugin or store error;
\* the worker discards the error and goes on with its loop.  The pass
\* stops at its first Emit (nothing logged), or in a plugin's turn before
\* or after the plugin's artifacts were added.
CheckpointError(w) ==
    /\ pc[w] \in {"ckpt_pytest", "ckpt_coverage"}
    /\ pc' = [pc EXCEPT ![w] = "claim"]
    /\ \/ /\ pc[w] = "ckpt_pytest"
          /\ faults' = faults \cup {"emit"}
          /\ UNCHANGED <<log, artifacts, stale>>
       \/ /\ log' = log \cup {"checkpoint_started"}
          /\ faults' = faults \cup {"checkpoint"}
          /\ \/ UNCHANGED <<artifacts, stale>>
             \/ /\ artifacts' = artifacts + ArtifactsOf(IF pc[w] = "ckpt_pytest"
                                                        THEN "pytest" ELSE "coverage")
                /\ stale' = StaleAfterWrite(w)
    /\ UNCHANGED <<findings, summary>>
    /\ UNCHANGED <<cfg, passVars, storeVars, now, lastRun, task, claimResult,
                   localVars, workspaces, returned, inserted>>

Next ==
    \/ \E w \in Workers : ClaimSelect(w)
    \/ \E w \in Workers : ClaimUpdate(w)
    \/ \E w \in Workers : CreateAttemptOk(w)
    \/ \E w \in Workers : CreateAttemptErr(w)
    \/ \E w \in Workers : PrepareWorkspaceOk(w)
    \/ \E w \in Workers : PrepareWorkspaceErr(w)
    \/ \E w \in Workers : ParseValidationOk(w)
    \/ \E w \in Workers : ParseValidationErr(w)
    \/ \E w \in Workers : FailFinish(w)
    \/ \E w \in Workers : InvokeReturn(w)
    \/ \E w \in Workers : ValidateAndFinish(w)
    \/ \E w \in Workers : UpdateTask(w)
    \/ \E w \in Workers : FinalizeWorkspace(w)
    \/ \E w \in Workers : ShouldRun(w)
    \/ \E w \in Workers : CheckpointPytest(w)
    \/ \E w \in Workers : CheckpointCoverage(w)
    \/ \E w \in Workers : CheckpointError(w)

Spec == Init /\ [][Next]_vars

(***************************************************************************)
(* WriteFaultSpec: the worker pool of Spec against a store whose          *)
(* FinishAttempt and UpdateTaskStatus may return an error (the database   *)
(* is busy or cannot be written) without the context being cancelled.     *)
(* The worker discards the error and goes on.                             *)
(***************************************************************************)
\* runValidation, then `_ = e.Store.FinishAttempt(...)`, which returns an
\* error: the attempt row is as it was
FinishAttemptFails(w) ==
    /\ pc[w] = "validate"
    /\ \E rs \in CmdRuns :
          /\ valExit' = [valExit EXCEPT ![w] = runValidation(rs)]
          /\ valAllZero' = [valAllZero EXCEPT ![w] =
                 \A i \in 1..Len(rs) : ~rs[i].err /\ rs[i].exit = 0]
    /\ pc' = [pc EXCEPT ![w] = "update"]
    /\ UNCHANGED <<cfg, envVars, seedVars, storeVars, now, lastRun, task, stale,
                   claimResult, attemptID, agentRes, workspaces, returned, inserted>>

\* `_ = e.Store.UpdateTaskStatus(...)` returns an error: the task row is
\* as it was, and the worker goes on to FinalizeWorkspace
UpdateTaskFails(w) ==
    /\ pc[w] = "update"
    /\ pc' = [pc EXCEPT ![w] = "finalize"]
    /\ UNCHANGED <<cfg, envVars, seedVars, storeVars, now, lastRun, task, stale,
                   claimResult, localVars, workspaces, returned, inserted>>

WriteFaultNext ==
    \/ \E w \in Workers : ClaimSelect(w)
    \/ \E w \in Workers : ClaimUpdate(w)
    \/ \E w \in Workers : CreateAttemptOk(w)
    \/ \E w \in Workers : CreateAttemptErr(w)
    \/ \E w \in Workers : PrepareWorkspaceOk(w)
    \/ \E w \in Workers : PrepareWorkspaceErr(w)
    \/ \E w \in Workers : ParseValidationOk(w)
    \/ \E w \in Workers : ParseValidationErr(w)
    \/ \E w \in Workers : FailFinish(w)
    \/ \E w \in Workers : InvokeReturn(w)
    \/ \E w \in Workers : ValidateAndFinish(w)
    \/ \E w \in Workers : FinishAttemptFails(w)
    \/ \E w \in Workers : UpdateTask(w)
    \/ \E w \in Workers : UpdateTaskFails(w)
    \/ \E w \in Workers : FinalizeWorkspace(w)
    \/ \E w \in Workers : ShouldRun(w)
    \/ \E w \in Workers : CheckpointPytest(w)
    \/ \E w \in Workers : CheckpointCoverage(w)
    \/ \E w \in Workers : CheckpointError(w)

\* the seeded queue of Spec, the pool no larger than the bound
WriteFaultInit == Init /\ cfg.max_workers <= WriteFaultMaxWorkers

WriteFaultSpec == WriteFaultInit /\ [][WriteFaultNext]_vars

(***************************************************************************)
(* DrainSpec: the worker pool with an agent that never errors, validation *)
(* commands that all exit zero, and no failure of CreateAttempt, of the   *)
(* workspace or of the validation spec.  Every worker goroutine that can  *)
(* take a step eventually takes one.                                      *)
(***************************************************************************)
AgentResultsNoError == {r \in AgentResults : ~r.err}

CmdRunsAllZero ==
    {rs \in CmdRuns : \A i \in 1..Len(rs) : ~rs[i].err /\ rs[i].exit = 0}

InvokeReturnNoError(w) == InvokeReturnFrom(w, AgentResultsNoError)

ValidateZeroAndFinish(w) == ValidateAndFinishFrom(w, CmdRunsAllZero)

DrainStep(w) ==
    \/ ClaimSelect(w)
    \/ ClaimUpdate(w)
    \/ CreateAttemptOk(w)
    \/ PrepareWorkspaceOk(w)
    \/ ParseValidationOk(w)
    \/ InvokeReturnNoError(w)
    \/ ValidateZeroAndFinish(w)
    \/ UpdateTask(w)
    \/ FinalizeWorkspace(w)
    \/ ShouldRun(w)
    \/ CheckpointPytest(w)
    \/ CheckpointCoverage(w)
    \/ CheckpointError(w)

DrainNext ==
    \/ \E w \in Workers : ClaimSelect(w)
    \/ \E w \in Workers : ClaimUpdate(w)
    \/ \E w \in Workers : CreateAttemptOk(w)
    \/ \E w \in Workers : PrepareWorkspaceOk(w)
    \/ \E w \in Workers : ParseValidationOk(w)
    \/ \E w \in Workers : InvokeReturnNoError(w)
    \/ \E w \in Workers : ValidateZeroAndFinish(w)
    \/ \E w \in Workers : UpdateTask(w)
    \/ \E w \in Workers : FinalizeWorkspace(w)
    \/ \E w \in Workers : ShouldRun(w)
    \/ \E w \in Workers : CheckpointPytest(w)
    \/ \E w \in Workers : CheckpointCoverage(w)
    \/ \E w \in Workers : CheckpointError(w)

\* the goroutines Executor.Run may start, whatever the configuration
WorkerSlots == 1..MaxWorkersCfg

DrainFairness ==
    \A w \in WorkerSlots : WF_vars(w \in Workers /\ DrainStep(w))

DrainSpec == Init /\ [][DrainNext]_vars /\ DrainFairness

(***************************************************************************)
(* RunSpec: a whole run, from Command.Run creating the run record to its  *)
(* return: seeding by the plugins, the worker pool, the run's terminal    *)
(* status.  The event log's Emit may fail, a plugin call may fail, a      *)
(* store call whose error Command.Run tests may fail, and the context     *)
(* (signal.NotifyContext of main) may be cancelled at any point after the *)
(* run record exists.  A cancelled context fails every store call that    *)
(* is given it.                                                           *)
(***************************************************************************)
Cancelled == cancelAt # "none"

RunConfigs ==
    [max_workers : 1..RunMaxWorkers,
     max_agent_workers : {1},
     checkpoint_minutes : {0, 1}]

RunInit ==
    /\ cfg \in RunConfigs
    /\ tasks = EarlierRows
    /\ attempts = <<>>
    /\ runStatus = "none"
    /\ now = 0
    /\ lastRun = 0
    /\ pc = [w \in Workers |-> "idle"]
    /\ task = [w \in Workers |-> 0]
    /\ stale = [w \in Workers |-> FALSE]
    /\ claimResult = [w \in Workers |-> "pending"]
    /\ attemptID = [w \in Workers |-> 0]
    /\ agentRes = [w \in Workers |-> NoResult]
    /\ valExit = [w \in Workers |-> 0]
    /\ valAllZero = [w \in Workers |-> TRUE]
    /\ workspaces = {}
    /\ returned = [i \in 1..Len(tasks) |-> 0]
    /\ inserted = 0
    /\ log = {}
    /\ artifacts = 0
    /\ findings = 0
    /\ summary = [Findings |-> 0, Tasks |-> 0]
    /\ cpc = "create_run"
    /\ cancelAt = "none"
    /\ faults = {}
    /\ result = "none"
    /\ AdapterIdle
    /\ EmitIdle
    /\ GateIdle
    /\ InsertIdle
    /\ FnIdle

\* what the steps of Command.Run outside the pool leave alone
workerVars ==
    <<cfg, now, lastRun, pc, task, stale, claimResult, attemptID, agentRes,
      valExit, valAllZero, workspaces, inserted, attempts, adapterVars,
      emitVars, gateVars, insertVars, fnVars>>

\* Command.Run returns err without calling finalize
ReturnError(kind) ==
    /\ cpc' = "returned"
    /\ result' = "error"
    /\ faults' = faults \cup kind

\* storeDB.CreateRun: the run record, status 'running'
CreateRunOk ==
    /\ cpc = "create_run"
    /\ runStatus' = "running"
    /\ cpc' = "emit_started"
    /\ UNCHANGED <<workerVars, tasks, returned, seedVars, cancelAt, faults, result>>

\* storeDB.CreateRun fails: Command.Run returns, no record exists
CreateRunErr ==
    /\ cpc = "create_run"
    /\ ReturnError({"store"})
    /\ UNCHANGED <<workerVars, tasks, returned, seedVars, runStatus, cancelAt>>

\* logger.Emit(run_started)
EmitRunStartedOk ==
    /\ cpc = "emit_started"
    /\ log' = log \cup {"run_started"}
    /\ cpc' = "seed_pytest"
    /\ UNCHANGED <<workerVars, tasks, returned, artifacts, findings, summary, runStatus,
                   cancelAt, faults, result>>

\* logger.Emit(run_started) fails: `return Result{}, err`
EmitRunStartedFails ==
    /\ cpc = "emit_started"
    /\ ReturnError({"emit"})
    /\ UNCHANGED <<workerVars, tasks, returned, seedVars, runStatus, cancelAt>>

(***************************************************************************)
(* One turn of the seeding loop, for one plugin.  Its calls, in order:    *)
(*  1 Emit(collect_started)    2 Collect       3 Emit(collect_finished)   *)
(*  4 AddArtifact, per artifact                5 Normalize                *)
(*  6 Emit(normalize_finished) 7 InsertFindings 8 Plan                    *)
(*  9 Emit(plan_finished)     10 ValidationSpec, per task                 *)
(* 11 InsertTasks.                                                        *)
(* The turn stops at the first call that fails; SeedDone stands for none. *)
(***************************************************************************)
SeedDone == 12
EmitStages == {1, 3, 6, 9}
PluginStages == {2, 5, 8, 10}
StoreStages == {4, 7, 11}

SeedAt(tool) == IF tool = "pytest" THEN "seed_pytest" ELSE "seed_coverage"

SeedThen(tool) == IF tool = "pytest" THEN "seed_coverage" ELSE "start"

\* Summary.Add(findings, tasks)
SummaryAdd(sm, f, n) == [Findings |-> sm.Findings + f, Tasks |-> sm.Tasks + n]

\* the effect of the calls before `stage` of a turn with f findings and n
\* planned tasks, where k artifacts were added before a failing AddArtifact
SeedEffects(tool, stage, n, f, k) ==
    /\ log' = log \cup {e \in {"collect_started", "collect_finished",
                                "normalize_finished", "plan_finished"} :
                           \/ e = "collect_started" /\ stage > 1
                           \/ e = "collect_finished" /\ stage > 3
                           \/ e = "normalize_finished" /\ stage > 6
                           \/ e = "plan_finished" /\ stage > 9}
    /\ artifacts' = artifacts + (IF stage > 4 THEN ArtifactsOf(tool)
                                 ELSE IF stage = 4 THEN k ELSE 0)
    /\ findings' = findings + (IF stage > 7 THEN f ELSE 0)
    /\ summary' = IF stage > 11 THEN SummaryAdd(summary, f, n) ELSE summary
    /\ tasks' = IF stage > 11 THEN InsertTasks(tasks, PluginPlan(tool, n, now))
                               ELSE tasks
    /\ returned' = IF stage > 11 THEN returned \o [i \in 1..n |-> 0] ELSE returned

\* which calls can be the first to fail: with no finding (no task) the
\* batch inserts return nil at once and ValidationSpec is not called; with
\* a cancelled context AddArtifact fails, so nothing after it is reached
CanStopAt(stage, n) ==
    /\ stage \in {7, 10, 11} => n > 0
    /\ Cancelled => stage <= 4

SeedOk(tool) ==
    /\ cpc = SeedAt(tool)
    /\ ~Cancelled
    /\ \E n \in 0..RunMaxPlan : \E f \in FindingCounts(tool, n, RunMaxTestsPerFile) :
          SeedEffects(tool, SeedDone, n, f, 0)
    /\ cpc' = SeedThen(tool)
    /\ UNCHANGED <<workerVars, runStatus, cancelAt, faults, result>>

\* an Emit of the turn fails: `return Result{}, err`
SeedEmitFails(tool) ==
    /\ cpc = SeedAt(tool)
    /\ \E stage \in EmitStages, n \in 0..RunMaxPlan :
          \E f \in FindingCounts(tool, n, RunMaxTestsPerFile) :
             /\ CanStopAt(stage, n)
             /\ SeedEffects(tool, stage, n, f, 0)
    /\ ReturnError({"emit"})
    /\ UNCHANGED <<workerVars, runStatus, cancelAt>>

\* faulty variant: a plugin error returned like an Emit error, finalize skipped
SeedPluginErrUnfinalized(tool) ==
    /\ cpc = SeedAt(tool)
    /\ \E stage \in PluginStages, n \in 0..RunMaxPlan :
          \E f \in FindingCounts(tool, n, RunMaxTestsPerFile) :
             /\ CanStopAt(stage, n)
             /\ SeedEffects(tool, stage, n, f, 0)
    /\ ReturnError({"plugin"})
    /\ UNCHANGED <<workerVars, runStatus, cancelAt>>

\* a plugin call of the turn fails: `return finalize(...)`
SeedPluginErr(tool) ==
    /\ cpc = SeedAt(tool)
    /\ \E stage \in PluginStages, n \in 0..RunMaxPlan :
          \E f \in FindingCounts(tool, n, RunMaxTestsPerFile) :
             /\ CanStopAt(stage, n)
             /\ SeedEffects(tool, stage, n, f, 0)
    /\ faults' = faults \cup {"plugin"}
    /\ cpc' = "finalize"
    /\ UNCHANGED <<workerVars, runStatus, cancelAt, result>>

\* a store call of the turn fails, by itself or because the context is
\* cancelled: `return finalize(...)`
SeedStoreErr(tool) ==
    /\ cpc = SeedAt(tool)
    /\ \E stage \in StoreStages, n \in 0..RunMaxPlan,
          k \in 0..(ArtifactsOf(tool) - 1) :
          \E f \in FindingCounts(tool, n, RunMaxTestsPerFile) :
             /\ CanStopAt(stage, n)
             /\ SeedEffects(tool, stage, n, f, k)
    /\ faults' = IF Cancelled THEN faults ELSE faults \cup {"store"}
    /\ cpc' = "finalize"
    /\ UNCHANGED <<workerVars, runStatus, cancelAt, result>>

\* selectAgentAdapter, then Executor.Run starts the worker goroutines
StartWorkers ==
    /\ cpc = "start"
    /\ pc' = [w \in Workers |-> "claim"]
    /\ cpc' = "executor"
    /\ UNCHANGED <<cfg, now, lastRun, task, stale, claimResult, attemptID, agentRes,
                   valExit, valAllZero, workspaces, inserted, adapterVars,
                   emitVars, gateVars, insertVars, fnVars, storeVars, returned, seedVars, cancelAt,
                   faults, result>>

\* wg.Wait() is over: Executor.Run returns nil, whatever the workers met
ExecutorReturns ==
    /\ cpc = "executor"
    /\ \A w \in Workers : pc[w] = "exited"
    /\ cpc' = "update_run"
    /\ UNCHANGED <<workerVars, storeVars, returned, seedVars, cancelAt, faults, result>>

\* UpdateRunStatus(ctx, runID, "succeeded", summary)
UpdateRunOk ==
    /\ cpc = "update_run"
    /\ ~Cancelled
    /\ runStatus' = "succeeded"
    /\ cpc' = "report"
    /\ UNCHANGED <<workerVars, tasks, attempts, returned, seedVars, cancelAt, faults, result>>

\* the same call fails, by itself or because the context is cancelled:
\* `return Result{}, err`
UpdateRunErr ==
    /\ cpc = "update_run"
    /\ ReturnError(IF Cancelled THEN {} ELSE {"store"})
    /\ UNCHANGED <<workerVars, storeVars, returned, seedVars, cancelAt>>

\* buildRunReport, writeJSON and AddArtifact of the report
ReportOk ==
    /\ cpc = "report"
    /\ ~Cancelled
    /\ artifacts' = artifacts + 1
    /\ cpc' = "emit_finished"
    /\ UNCHANGED <<workerVars, storeVars, returned, log, findings, summary, cancelAt, faults, result>>

\* one of the three fails (a cancelled context fails the first):
\* `return Result{}, err`
ReportErr ==
    /\ cpc = "report"
    /\ ReturnError(IF Cancelled THEN {} ELSE {"store"})
    /\ UNCHANGED <<workerVars, storeVars, returned, seedVars, cancelAt>>

\* logger.Emit(run_finished), then `return Result{...}, nil`
EmitRunFinishedOk ==
    /\ cpc = "emit_finished"
    /\ log' = log \cup {"run_finished"}
    /\ cpc' = "returned"
    /\ result' = "ok"
    /\ UNCHANGED <<workerVars, storeVars, returned, artifacts, findings, summary, cancelAt, faults>>

\* logger.Emit(run_finished) fails: `return Result{}, err`
EmitRunFinishedFails ==
    /\ cpc = "emit_finished"
    /\ ReturnError({"emit"})
    /\ UNCHANGED <<workerVars, storeVars, returned, seedVars, cancelAt>>

\* finalize: UpdateRunStatus(context.Background(), runID, "failed", ...),
\* Emit(run_failed) with its error dropped, `return Result{}, runErr`
Finalize ==
    /\ cpc = "finalize"
    /\ runStatus' = "failed"
    /\ \/ log' = log \cup {"run_failed"}
       \/ log' = log
    /\ cpc' = "returned"
    /\ result' = "error"
    /\ UNCHANGED <<workerVars, tasks, attempts, returned, artifacts, findings, summary,
                   cancelAt, faults>>

\* finalize, its UpdateRunStatus failing: `return Result{}, updateErr`
FinalizeStoreErr ==
    /\ cpc = "finalize"
    /\ ReturnError({"store"})
    /\ UNCHANGED <<workerVars, storeVars, returned, seedVars, cancelAt>>

\* SIGINT or SIGTERM cancels the context, at any point between the
\* creation of the run record and the return of Command.Run
Cancel ==
    /\ ~Cancelled
    /\ runStatus # "none"
    /\ cpc # "returned"
    /\ cancelAt' = cpc
    /\ UNCHANGED <<workerVars, storeVars, returned, seedVars, cpc, faults, result>>

(***************************************************************************)
(* runWorker with a cancelled context: every store call fails at once and *)
(* writes nothing; runWorker drops the errors of FinishAttempt and        *)
(* UpdateTaskStatus and returns on those of ClaimNextTask, CreateAttempt. *)
(***************************************************************************)
\* ClaimNextTask fails (BeginTx, or the statement in flight): return
CancelledClaim(w) ==
    /\ Cancelled
    /\ pc[w] \in {"claim", "claim_update"}
    /\ claimResult' = [claimResult EXCEPT ![w] = "error"]
    /\ pc' = [pc EXCEPT ![w] = "exited"]
    /\ task' = [task EXCEPT ![w] = 0]
    /\ stale' = [stale EXCEPT ![w] = FALSE]
    /\ UNCHANGED <<cfg, envVars, seedVars, storeVars, now, lastRun, localVars,
                   workspaces, returned, inserted>>

\* CreateAttempt fails, UpdateTaskStatus("blocked") fails too: return
CancelledAttempt(w) ==
    /\ Cancelled
    /\ pc[w] = "attempt"
    /\ pc' = [pc EXCEPT ![w] = "exited"]
    /\ task' = [task EXCEPT ![w] = 0]
    /\ UNCHANGED <<cfg, envVars, seedVars, storeVars, now, lastRun, stale, claimResult,
                   localVars, workspaces, returned, inserted>>

\* the workspace or validation-spec failure path: neither
\* UpdateTaskStatus("blocked") nor FinishAttempt("failed") writes
CancelledFail(w) ==
    /\ Cancelled
    /\ pc[w] \in {"prepare", "parse", "fail_finish"}
    /\ pc' = [pc EXCEPT ![w] = "exited"]
    /\ task' = [task EXCEPT ![w] = 0]
    /\ attemptID' = [attemptID EXCEPT ![w] = 0]
    /\ UNCHANGED <<cfg, envVars, seedVars, storeVars, now, lastRun, stale, claimResult,
                   agentRes, valExit, valAllZero, workspaces, returned, inserted>>

\* runValidation, then FinishAttempt, which fails and writes nothing
CancelledValidate(w) ==
    /\ Cancelled
    /\ pc[w] = "validate"
    /\ \E rs \in CmdRuns :
          /\ valExit' = [valExit EXCEPT ![w] = runValidation(rs)]
          /\ valAllZero' = [valAllZero EXCEPT ![w] =
                 \A i \in 1..Len(rs) : ~rs[i].err /\ rs[i].exit = 0]
    /\ pc' = [pc EXCEPT ![w] = "update"]
    /\ UNCHANGED <<cfg, envVars, seedVars, storeVars, now, lastRun, task, stale,
                   claimResult, attemptID, agentRes, workspaces, returned, inserted>>

\* UpdateTaskStatus fails and writes nothing
CancelledUpdate(w) ==
    /\ Cancelled
    /\ pc[w] = "update"
    /\ pc' = [pc EXCEPT ![w] = "finalize"]
    /\ UNCHANGED <<cfg, envVars, seedVars, storeVars, now, lastRun, task, stale,
                   claimResult, localVars, workspaces, returned, inserted>>

RunNext ==
    \/ CreateRunOk
    \/ CreateRunErr
    \/ EmitRunStartedOk
    \/ EmitRunStartedFails
    \/ \E tool \in {"pytest", "coverage"} : SeedOk(tool)
    \/ \E tool \in {"pytest", "coverage"} : SeedEmitFails(tool)
    \/ \E tool \in {"pytest", "coverage"} : SeedPluginErr(tool)
    \/ \E tool \in {"pytest", "coverage"} : SeedStoreErr(tool)
    \/ StartWorkers
    \/ ExecutorReturns
    \/ UpdateRunOk
    \/ UpdateRunErr
    \/ ReportOk
    \/ ReportErr
    \/ EmitRunFinishedOk
    \/ EmitRunFinishedFails
    \/ Finalize
    \/ FinalizeStoreErr
    \/ Cancel
    \/ \E w \in Workers : ~Cancelled /\ ClaimSelect(w)
    \/ \E w \in Workers : ~Cancelled /\ ClaimUpdate(w)
    \/ \E w \in Workers : ~Cancelled /\ CreateAttemptOk(w)
    \/ \E w \in Workers : ~Cancelled /\ CreateAttemptErr(w)
    \/ \E w \in Workers : PrepareWorkspaceOk(w)
    \/ \E w \in Workers : ~Cancelled /\ PrepareWorkspaceErr(w)
    \/ \E w \in Workers : ParseValidationOk(w)
    \/ \E w \in Workers : ~Cancelled /\ ParseValidationErr(w)
    \/ \E w \in Workers : ~Cancelled /\ FailFinish(w)
    \/ \E w \in Workers : InvokeReturn(w)
    \/ \E w \in Workers : ~Cancelled /\ ValidateAndFinish(w)
    \/ \E w \in Workers : ~Cancelled /\ UpdateTask(w)
    \/ \E w \in Workers : FinalizeWorkspace(w)
    \/ \E w \in Workers : ShouldRun(w)
    \/ \E w \in Workers : ~Cancelled /\ CheckpointPytest(w)
    \/ \E w \in Workers : ~Cancelled /\ CheckpointCoverage(w)
    \/ \E w \in Workers : CheckpointError(w)
    \/ \E w \in Workers : CancelledClaim(w)
    \/ \E w \in Workers : CancelledAttempt(w)
    \/ \E w \in Workers : CancelledFail(w)
    \/ \E w \in Workers : CancelledValidate(w)
    \/ \E w \in Workers : CancelledUpdate(w)

RunSpec == RunInit /\ [][RunNext]_vars

(***************************************************************************)
(* AdapterSpec: one Invoke of an agent adapter, for every adapter,        *)
(* request and child behaviour.                                           *)
(***************************************************************************)
PoolVars ==
    <<cfg, tasks, attempts, runStatus, now, lastRun, pc, task, stale,
      claimResult, attemptID, agentRes, valExit, valAllZero, workspaces,
      returned, inserted, seedVars, cmdVars>>

\* the worker pool at rest: nothing seeded, no worker running
PoolIdle ==
    /\ cfg = [max_workers |-> 1, max_agent_workers |-> 1, checkpoint_minutes |-> 0]
    /\ tasks = <<>>
    /\ attempts = <<>>
    /\ runStatus = "none"
    /\ now = 0
    /\ lastRun = 0
    /\ pc = [w \in Workers |-> "exited"]
    /\ task = [w \in Workers |-> 0]
    /\ stale = [w \in Workers |-> FALSE]
    /\ claimResult = [w \in Workers |-> "pending"]
    /\ attemptID = [w \in Workers |-> 0]
    /\ agentRes = [w \in Workers |-> NoResult]
    /\ valExit = [w \in Workers |-> 0]
    /\ valAllZero = [w \in Workers |-> TRUE]
    /\ workspaces = {}
    /\ returned = <<>>
    /\ inserted = 0
    /\ log = {}
    /\ artifacts = 0
    /\ findings = 0
    /\ summary = [Findings |-> 0, Tasks |-> 0]
    /\ cpc = "none"
    /\ cancelAt = "none"
    /\ faults = {}
    /\ result = "none"

AdapterInit ==
    /\ PoolIdle
    /\ EmitIdle
    /\ GateIdle
    /\ InsertIdle
    /\ FnIdle
    /\ adIn \in AdapterInputs
    /\ adOut = <<>>

AdapterInvoke ==
    /\ adIn.adapter # "none"
    /\ adOut = <<>>
    /\ adOut' = <<Invoke(adIn)>>
    /\ UNCHANGED <<PoolVars, emitVars, gateVars, insertVars, fnVars, adIn>>

AdapterNext == AdapterInvoke

AdapterSpec == AdapterInit /\ [][AdapterNext]_vars

(***************************************************************************)
(* EmitSpec: goroutines calling EventLog.Emit on one EventLog at the same *)
(* time (the workers' checkpoint passes do).  Emit is followed statement  *)
(* by statement.  file.Write hands the line to the file in one or more    *)
(* write calls; the model takes two, the second ending with the newline.  *)
(* The clock does not run backwards.                                      *)
(***************************************************************************)
\* ticks in one second: Format(time.RFC3339) keeps whole seconds
TicksPerSecond == 2

\* time.Now().UTC().Format(time.RFC3339) at instant t: the second of t
RFC3339(t) == t \div TicksPerSecond

\* the part of a record's line given to one write call
Chunk(c, part) == [by |-> c, ts |-> ets[c], part |-> part]

EmitOthers == <<PoolVars, adapterVars, gateVars, insertVars, fnVars>>

\* a goroutine calls Emit and reaches l.mu.Lock()
EmitCall(c) ==
    /\ epc[c] = "idle"
    /\ Len(file) < 2 * MaxRecords
    /\ epc' = [epc EXCEPT ![c] = "lock"]
    /\ UNCHANGED <<EmitOthers, mu, ets, file, eclock>>

\* faulty variant: a lock that excludes nobody
LockNoExclusion(c) ==
    /\ epc[c] = "lock"
    /\ mu' = c
    /\ epc' = [epc EXCEPT ![c] = "stamp"]
    /\ UNCHANGED <<EmitOthers, ets, file, eclock>>

\* l.mu.Lock() returns: the mutex was free and is now held by c
Lock(c) ==
    /\ epc[c] = "lock"
    /\ mu = 0
    /\ mu' = c
    /\ epc' = [epc EXCEPT ![c] = "stamp"]
    /\ UNCHANGED <<EmitOthers, ets, file, eclock>>

\* payload.TS = time.Now().UTC().Format(time.RFC3339)
Stamp(c) ==
    /\ epc[c] = "stamp"
    /\ ets' = [ets EXCEPT ![c] = RFC3339(eclock)]
    /\ epc' = [epc EXCEPT ![c] = "marshal"]
    /\ UNCHANGED <<EmitOthers, mu, file, eclock>>

\* json.Marshal(payload) succeeds
MarshalOk(c) ==
    /\ epc[c] = "marshal"
    /\ epc' = [epc EXCEPT ![c] = "write"]
    /\ UNCHANGED <<EmitOthers, mu, ets, file, eclock>>

\* json.Marshal fails, or file.Write fails before writing: `return err`
EmitErr(c) ==
    /\ epc[c] \in {"marshal", "write"}
    /\ epc' = [epc EXCEPT ![c] = "unlock"]
    /\ UNCHANGED <<EmitOthers, mu, ets, file, eclock>>

\* file.Write(append(data, '\n')): the first write call (O_APPEND)
WriteHead(c) ==
    /\ epc[c] = "write"
    /\ file' = Append(file, Chunk(c, 1))
    /\ epc' = [epc EXCEPT ![c] = "write_rest"]
    /\ UNCHANGED <<EmitOthers, mu, ets, eclock>>

\* the rest of the line, newline included
WriteRest(c) ==
    /\ epc[c] = "write_rest"
    /\ file' = Append(file, Chunk(c, 2))
    /\ epc' = [epc EXCEPT ![c] = "unlock"]
    /\ UNCHANGED <<EmitOthers, mu, ets, eclock>>

\* the deferred l.mu.Unlock(), and Emit returns
Unlock(c) ==
    /\ epc[c] = "unlock"
    /\ mu' = 0
    /\ epc' = [epc EXCEPT ![c] = "idle"]
    /\ UNCHANGED <<EmitOthers, ets, file, eclock>>

\* time passes
Tick ==
    /\ eclock < MaxEmitClock
    /\ eclock' = eclock + 1
    /\ UNCHANGED <<EmitOthers, epc, mu, ets, file>>

EmitInit == PoolIdle /\ AdapterIdle /\ EmitIdle /\ GateIdle /\ InsertIdle /\ FnIdle

EmitNext ==
    \/ \E c \in EmitCallers : EmitCall(c)
    \/ \E c \in EmitCallers : Lock(c)
    \/ \E c \in EmitCallers : Stamp(c)
    \/ \E c \in EmitCallers : MarshalOk(c)
    \/ \E c \in EmitCallers : EmitErr(c)
    \/ \E c \in EmitCallers : WriteHead(c)
    \/ \E c \in EmitCallers : WriteRest(c)
    \/ \E c \in EmitCallers : Unlock(c)
    \/ Tick

EmitSpec == EmitInit /\ [][EmitNext]_vars

(***************************************************************************)
(* GateSpec: workers calling ShouldRun on the pool's one tracker at the   *)
(* same time, followed statement by statement, while time passes.         *)
(***************************************************************************)
GateOthers == <<PoolVars, adapterVars, emitVars, insertVars, fnVars>>

\* a worker finished an iteration and calls ShouldRun: c.mu.Lock()
GateCall(c) ==
    /\ gpc[c] = "idle"
    /\ gpc' = [gpc EXCEPT ![c] = "lock"]
    /\ UNCHANGED <<GateOthers, gsince, tracker, gclock, grants>>

\* faulty variant: a lock that excludes nobody
GateLockNoExclusion(c) ==
    /\ gpc[c] = "lock"
    /\ tracker' = [tracker EXCEPT !.mu = c]
    /\ gpc' = [gpc EXCEPT ![c] = "since"]
    /\ UNCHANGED <<GateOthers, gsince, gclock, grants>>

\* c.mu.Lock() returns: the mutex was free and is now held by c
GateLock(c) ==
    /\ gpc[c] = "lock"
    /\ tracker.mu = 0
    /\ tracker' = [tracker EXCEPT !.mu = c]
    /\ gpc' = [gpc EXCEPT ![c] = "since"]
    /\ UNCHANGED <<GateOthers, gsince, gclock, grants>>

\* time.Since(c.lastRun)
GateSince(c) ==
    /\ gpc[c] = "since"
    /\ gsince' = [gsince EXCEPT ![c] = gclock - tracker.lastRun]
    /\ gpc' = [gpc EXCEPT ![c] = "compare"]
    /\ UNCHANGED <<GateOthers, tracker, gclock, grants>>

\* `< c.interval`: return false, or go on
GateCompare(c) ==
    /\ gpc[c] = "compare"
    /\ gpc' = [gpc EXCEPT ![c] = IF gsince[c] < tracker.interval
                                   THEN "unlock" ELSE "set"]
    /\ UNCHANGED <<GateOthers, gsince, tracker, gclock, grants>>

\* c.lastRun = time.Now(); return true
GateSet(c) ==
    /\ gpc[c] = "set"
    /\ tracker' = [tracker EXCEPT !.lastRun = gclock]
    /\ grants' = Append(grants, gclock)
    /\ gpc' = [gpc EXCEPT ![c] = "unlock"]
    /\ UNCHANGED <<GateOthers, gsince, gclock>>

\* the deferred c.mu.Unlock(), and ShouldRun returns
GateUnlock(c) ==
    /\ gpc[c] = "unlock"
    /\ tracker' = [tracker EXCEPT !.mu = 0]
    /\ gpc' = [gpc EXCEPT ![c] = "idle"]
    /\ UNCHANGED <<GateOthers, gsince, gclock, grants>>

\* a minute passes
GateTick ==
    /\ gclock < MaxGateClock
    /\ gclock' = gclock + 1
    /\ UNCHANGED <<GateOthers, gpc, gsince, tracker, grants>>

GateInit ==
    /\ PoolIdle
    /\ AdapterIdle
    /\ EmitIdle
    /\ InsertIdle
    /\ FnIdle
    /\ gpc = [c \in GateCallers |-> "idle"]
    /\ gsince = [c \in GateCallers |-> 0]
    /\ \E minutes \in 0..MaxGateMinutes : tracker = NewTracker(minutes, 0)
    /\ gclock = 0
    /\ grants = <<>>

GateNext ==
    \/ \E c \in GateCallers : GateCall(c)
    \/ \E c \in GateCallers : GateLock(c)
    \/ \E c \in GateCallers : GateSince(c)
    \/ \E c \in GateCallers : GateCompare(c)
    \/ \E c \in GateCallers : GateSet(c)
    \/ \E c \in GateCallers : GateUnlock(c)
    \/ GateTick

GateSpec == GateInit /\ [][GateNext]_vars

(***************************************************************************)
(* PassSpec: the same workers and tracker, each worker going on after     *)
(* ShouldRun as runWorker does: into runCheckpoint when ShouldRun         *)
(* returned true, back to its loop when not.  A pass lasts as long as it  *)
(* lasts: the clock may advance while a worker is in it.                  *)
(***************************************************************************)
\* the deferred c.mu.Unlock(); ShouldRun returns, and on true the worker
\* enters runCheckpoint
GateReturn(c) ==
    /\ gpc[c] = "unlock"
    /\ tracker' = [tracker EXCEPT !.mu = 0]
    /\ gpc' = [gpc EXCEPT ![c] = IF gsince[c] < tracker.interval
                                   THEN "idle" ELSE "pass"]
    /\ UNCHANGED <<GateOthers, gsince, gclock, grants>>

\* runCheckpoint returns (its error is discarded); the worker loops
PassReturn(c) ==
    /\ gpc[c] = "pass"
    /\ gpc' = [gpc EXCEPT ![c] = "idle"]
    /\ UNCHANGED <<GateOthers, gsince, tracker, gclock, grants>>

PassNext ==
    \/ \E c \in GateCallers : GateCall(c)
    \/ \E c \in GateCallers : GateLock(c)
    \/ \E c \in GateCallers : GateSince(c)
    \/ \E c \in GateCallers : GateCompare(c)
    \/ \E c \in GateCallers : GateSet(c)
    \/ \E c \in GateCallers : GateReturn(c)
    \/ \E c \in GateCallers : PassReturn(c)
    \/ GateTick

PassSpec == GateInit /\ [][PassNext]_vars

(***************************************************************************)
(* InsertSpec: calls of SQLiteStore.InsertFindings and InsertTasks, one   *)
(* after the other, with batches of every size from the empty one on.     *)
(* The findings table is its number of rows.                              *)
(***************************************************************************)
InsertOthers ==
    <<cfg, attempts, runStatus, now, lastRun, pc, task, stale, claimResult,
      attemptID, agentRes, valExit, valAllZero, workspaces, inserted, log,
      artifacts, summary, cmdVars, adapterVars, emitVars, gateVars, fnVars>>

\* InsertFindings(ctx, findings) or InsertTasks(ctx, tasks) is called
\* with a batch of k records; the store as it is then is remembered
InsertCall(kind, k) ==
    /\ ins.at = "idle"
    /\ Len(tasks) + findings < MaxInsertRows
    /\ txs.begun < MaxTxs
    /\ ins' = [at |-> "called", kind |-> kind, k |-> k, res |-> "none", pending |-> 0,
               before |-> [tasks |-> tasks, findings |-> findings, txs |-> txs]]
    /\ UNCHANGED <<InsertOthers, tasks, findings, returned, txs>>

\* faulty variant: no test of the batch's length, the transaction is begun
InsertBeginAlways ==
    /\ ins.at = "called"
    /\ txs' = [txs EXCEPT !.begun = @ + 1]
    /\ ins' = [ins EXCEPT !.at = "begun"]
    /\ UNCHANGED <<InsertOthers, tasks, findings, returned>>

\* `if len(...) == 0 { return nil }`, else s.db.BeginTx
InsertBegin ==
    /\ ins.at = "called"
    /\ IF ins.k = 0
       THEN /\ ins' = [ins EXCEPT !.at = "returned", !.res = "nil"]
            /\ UNCHANGED txs
       ELSE /\ txs' = [txs EXCEPT !.begun = @ + 1]
            /\ ins' = [ins EXCEPT !.at = "begun"]
    /\ UNCHANGED <<InsertOthers, tasks, findings, returned>>

\* faulty variant: the record is inserted by the database handle, outside
\* the transaction, and is committed by itself
InsertRowAutocommit ==
    /\ ins.at = "begun"
    /\ ins.pending < ins.k
    /\ IF ins.kind = "tasks"
       THEN /\ tasks' = InsertTasks(tasks, SubSeq(PytestPlan(ins.k, 0), ins.pending + 1, ins.pending + 1))
            /\ returned' = returned \o <<0>>
            /\ UNCHANGED findings
       ELSE /\ findings' = findings + 1
            /\ UNCHANGED <<tasks, returned>>
    /\ ins' = [ins EXCEPT !.pending = @ + 1]
    /\ UNCHANGED <<InsertOthers, txs>>

\* stmt.ExecContext of the next record of the batch returns nil: the row
\* is in the transaction, which no other connection reads before COMMIT
InsertRow ==
    /\ ins.at = "begun"
    /\ ins.pending < ins.k
    /\ ins' = [ins EXCEPT !.pending = @ + 1]
    /\ UNCHANGED <<InsertOthers, tasks, findings, returned, txs>>

\* BeginTx, PrepareContext, an ExecContext or Commit fails: the error is
\* returned and the transaction is rolled back (the deferred Rollback),
\* with the rows it had inserted
InsertErr ==
    /\ ins.at \in {"called", "begun"}
    /\ ins.k > 0
    /\ ins' = [ins EXCEPT !.at = "returned", !.res = "error"]
    /\ UNCHANGED <<InsertOthers, tasks, findings, returned, txs>>

\* every record was inserted and tx.Commit() returns nil: the rows of the
\* transaction are in the tables
InsertCommit ==
    /\ ins.at = "begun"
    /\ ins.pending = ins.k
    /\ IF ins.kind = "tasks"
       THEN /\ tasks' = InsertTasks(tasks, PytestPlan(ins.k, 0))
            /\ returned' = returned \o [i \in 1..(Len(tasks') - Len(tasks)) |-> 0]
            /\ UNCHANGED findings
       ELSE /\ findings' = findings + ins.k
            /\ UNCHANGED <<tasks, returned>>
    /\ txs' = [txs EXCEPT !.committed = @ + 1]
    /\ ins' = [ins EXCEPT !.at = "returned", !.res = "nil"]
    /\ UNCHANGED InsertOthers

\* the caller goes on
InsertDone ==
    /\ ins.at = "returned"
    /\ ins' = [at |-> "idle"]
    /\ UNCHANGED <<InsertOthers, tasks, findings, returned, txs>>

InsertInit == PoolIdle /\ AdapterIdle /\ EmitIdle /\ GateIdle /\ InsertIdle /\ FnIdle

InsertNext ==
    \/ \E kind \in {"findings", "tasks"}, k \in 0..MaxBatch : InsertCall(kind, k)
    \/ InsertBegin
    \/ InsertRow
    \/ InsertErr
    \/ InsertCommit
    \/ InsertDone

InsertSpec == InsertInit /\ [][InsertNext]_vars

(***************************************************************************)
(* ValidationRunSpec: runValidation by itself, over every sequence of up  *)
(* to MaxValCmds command runs.                                            *)
(***************************************************************************)
FnOthers == <<PoolVars, adapterVars, emitVars, gateVars, insertVars>>

\* (ExecResult.ExitCode, err) of one Runner.Run under AllowNonZero: the
\* zero ExecResult with an error, or a result with the exit code the
\* process gave (-1: killed by a signal) and no error
RunnerResults ==
    CmdResults \cup {[exit |-> 2, err |-> FALSE], [exit |-> -1, err |-> FALSE]}

\* runValidation: one turn of the loop, Run of spec.Commands[i]
ValidationLoop ==
    /\ rv.at = "loop"
    /\ rv.i <= Len(rv.cmds)
    /\ rv' = [rv EXCEPT !.exitCode = ValidationStep(rv.exitCode, rv.cmds[rv.i]),
                        !.i = @ + 1]
    /\ UNCHANGED <<FnOthers, rn, built, vj, ex>>

\* runValidation: `return exitCode`
ValidationReturn ==
    /\ rv.at = "loop"
    /\ rv.i > Len(rv.cmds)
    /\ rv' = [rv EXCEPT !.at = "returned"]
    /\ UNCHANGED <<FnOthers, rn, built, vj, ex>>

\* runValidation is called (`exitCode := 0`) with a spec whose commands
\* will run as rs tells
ValidationRunInit ==
    /\ PoolIdle /\ AdapterIdle /\ EmitIdle /\ GateIdle /\ InsertIdle
    /\ \E n \in 0..MaxValCmds : \E rs \in [1..n -> RunnerResults] :
          rv = [at |-> "loop", cmds |-> rs, i |-> 1, exitCode |-> 0]
    /\ rn = [at |-> "idle"]
    /\ built = <<>>
    /\ vj = [at |-> "idle"]
    /\ ex = [at |-> "idle"]

ValidationRunNext ==
    \/ ValidationLoop
    \/ ValidationReturn

ValidationRunSpec == ValidationRunInit /\ [][ValidationRunNext]_vars

(***************************************************************************)
(* RunnerSpec: GenericRunner.Run by itself, for every command and every   *)
(* behaviour of the file system and of the process.                       *)
(***************************************************************************)
\* the commands: whether Args is empty, AllowNonZero, TimeoutSeconds
RunnerCommands ==
    [Args : {"none", "argv"}, AllowNonZero : BOOLEAN,
     TimeoutSeconds : 0..MaxTimeoutSeconds]

\* what the system does with the command: whether os.Create of a capture
\* file fails, whether the process starts, the exit code it gives and the
\* seconds it takes if left alone, and what Wait reports for a process
\* that was killed at the deadline (the signal, or the context's error)
RunnerWorlds ==
    [create : {"ok", "fails"}, start : {"ok", "fails"},
     code : 0..MaxExitCode, secs : {0, MaxProcSeconds},
     killed : {"signal", "ctx"}]

\* the error of execCmd.Run under the context applyTimeout made: nil, an
\* *exec.ExitError with its exit code, or another error
ExecRun(cmd, world) ==
    IF world.start = "fails" THEN [type |-> "other", code |-> 0]
    ELSE IF cmd.TimeoutSeconds > 0 /\ world.secs >= cmd.TimeoutSeconds
         THEN IF world.killed = "signal"
              THEN [type |-> "exit", code |-> -1]
              ELSE [type |-> "other", code |-> 0]
    ELSE IF world.code = 0 THEN [type |-> "nil", code |-> 0]
    ELSE [type |-> "exit", code |-> world.code]

\* exitCode(err)
exitCode(err) ==
    IF err.type = "nil" THEN 0
    ELSE IF err.type = "exit" THEN err.code
    ELSE 1

\* `if len(cmd.Args) == 0 { return ExecResult{}, fmt.Errorf(...) }`
RunnerArgs ==
    /\ rn.at = "called"
    /\ rn' = IF rn.cmd.Args = "none"
             THEN [rn EXCEPT !.at = "returned", !.err = TRUE]
             ELSE [rn EXCEPT !.at = "create"]
    /\ UNCHANGED <<FnOthers, rv, built, vj, ex>>

\* os.Create of the capture files
RunnerCreate ==
    /\ rn.at = "create"
    /\ rn' = IF rn.world.create = "fails"
             THEN [rn EXCEPT !.at = "returned", !.err = TRUE]
             ELSE [rn EXCEPT !.at = "exec"]
    /\ UNCHANGED <<FnOthers, rv, built, vj, ex>>

\* execCmd.Run, exitCode(err), the test on AllowNonZero and the return
RunnerExec ==
    /\ rn.at = "exec"
    /\ LET err == ExecRun(rn.cmd, rn.world)
       IN  rn' = IF err.type # "nil" /\ ~rn.cmd.AllowNonZero /\ exitCode(err) # 0
                 THEN [rn EXCEPT !.at = "returned", !.err = TRUE]
                 ELSE [rn EXCEPT !.at = "returned", !.ExitCode = exitCode(err)]
    /\ UNCHANGED <<FnOthers, rv, built, vj, ex>>

\* Run is called; the returned pair starts as (ExecResult{}, nil)
RunnerInit ==
    /\ PoolIdle /\ AdapterIdle /\ EmitIdle /\ GateIdle /\ InsertIdle
    /\ rv = [at |-> "idle"]
    /\ built = <<>>
    /\ vj = [at |-> "idle"]
    /\ ex = [at |-> "idle"]
    /\ \E cmd \in RunnerCommands, world \in RunnerWorlds :
          rn = [at |-> "called", cmd |-> cmd, world |-> world,
                ExitCode |-> 0, err |-> FALSE]

RunnerNext ==
    \/ RunnerArgs
    \/ RunnerCreate
    \/ RunnerExec

RunnerSpec == RunnerInit /\ [][RunnerNext]_vars

(***************************************************************************)
(* RecollectSpec: Executor.Run over a run seeded with one task for one    *)
(* file with failing tests, each worker iteration taken in four steps     *)
(* (claim, attempt, gate, checkpoint pass), over a clock long enough for  *)
(* several checkpoint passes.  The claim transaction is taken as one      *)
(* step; no store call fails.                                             *)
(***************************************************************************)
RecollectOthers ==
    <<cfg, runStatus, stale, claimResult, localVars, workspaces, log, summary,
      envVars>>

\* ClaimNextTask: the worker returns when no task of the run is queued
RecollectClaim(w) ==
    /\ pc[w] = "claim"
    /\ IF SelectNext(RunID) = {}
       THEN /\ pc' = [pc EXCEPT ![w] = "exited"]
            /\ UNCHANGED <<tasks, task, returned>>
       ELSE \E id \in SelectNext(RunID) :
               /\ tasks' = ClaimRows(tasks, id, WorkerID(w))
               /\ task' = [task EXCEPT ![w] = id]
               /\ returned' = [returned EXCEPT ![id] = @ + 1]
               /\ pc' = [pc EXCEPT ![w] = "attempt"]
    /\ UNCHANGED <<RecollectOthers, attempts, now, lastRun, inserted, artifacts, findings>>

\* CreateAttempt, PrepareWorkspace, Agent.Invoke, runValidation over one of
\* the runs of the spec's commands, FinishAttempt, UpdateTaskStatus and
\* FinalizeWorkspace; the attempt ends at instant t
RecollectAttempt(w) ==
    /\ pc[w] = "attempt"
    /\ \E t \in now..MaxRecollectClock, res \in AgentResults, rs \in CmdRuns :
          LET status == AttemptStatus(res, runValidation(rs))
          IN  /\ now' = t
              /\ attempts' = Append(attempts, [NewAttempt(task[w]) EXCEPT !.status = status])
              /\ tasks' = UpdateTaskStatusRows(tasks, task[w], TaskStatusFor(status))
    /\ task' = [task EXCEPT ![w] = 0]
    /\ pc' = [pc EXCEPT ![w] = "gate"]
    /\ UNCHANGED <<RecollectOthers, lastRun, returned, inserted, artifacts, findings>>

\* checkpoint.ShouldRun() at instant t
RecollectGate(w) ==
    /\ pc[w] = "gate"
    /\ \E t \in now..MaxRecollectClock :
          /\ now' = t
          /\ IF t - lastRun < Interval
             THEN /\ pc' = [pc EXCEPT ![w] = "claim"]
                  /\ UNCHANGED lastRun
             ELSE /\ lastRun' = t
                  /\ pc' = [pc EXCEPT ![w] = "checkpoint"]
    /\ UNCHANGED <<RecollectOthers, tasks, attempts, task, returned, inserted,
                   artifacts, findings>>

\* runCheckpoint: both plugins collect again in the repository; the tests
\* of the file fail as before (n = 1) or pass by now (n = 0), coverage is
\* above its threshold
RecollectPass(w) ==
    /\ pc[w] = "checkpoint"
    /\ \E n \in 0..1 :
          /\ inserted + n <= MaxRecollected
          /\ tasks' = InsertTasks(tasks, PytestPlan(n, now))
          /\ returned' = returned \o [i \in 1..n |-> 0]
          /\ inserted' = inserted + n
          /\ findings' = findings + n
    /\ artifacts' = artifacts + PytestArtifacts + CoverageArtifacts
    /\ pc' = [pc EXCEPT ![w] = "claim"]
    /\ UNCHANGED <<RecollectOthers, attempts, now, lastRun, task>>

RecollectInit ==
    /\ \E mw \in 1..MaxWorkersCfg, cm \in {0, 1} :
          cfg = [max_workers |-> mw, max_agent_workers |-> 1, checkpoint_minutes |-> cm]
    /\ tasks = PytestPlan(1, 0)
    /\ attempts = <<>>
    /\ runStatus = "running"
    /\ now = 0
    /\ lastRun = 0
    /\ pc = [w \in Workers |-> "claim"]
    /\ task = [w \in Workers |-> 0]
    /\ stale = [w \in Workers |-> FALSE]
    /\ claimResult = [w \in Workers |-> "pending"]
    /\ attemptID = [w \in Workers |-> 0]
    /\ agentRes = [w \in Workers |-> NoResult]
    /\ valExit = [w \in Workers |-> 0]
    /\ valAllZero = [w \in Workers |-> TRUE]
    /\ workspaces = {}
    /\ returned = <<0>>
    /\ inserted = 0
    /\ log = SeedingEvents
    /\ artifacts = PytestArtifacts + CoverageArtifacts
    /\ findings = 1
    /\ summary = [Findings |-> 1, Tasks |-> 1]
    /\ cpc = "none"
    /\ cancelAt = "none"
    /\ faults = {}
    /\ result = "none"
    /\ AdapterIdle
    /\ EmitIdle
    /\ GateIdle
    /\ InsertIdle
    /\ FnIdle

RecollectNext ==
    \/ \E w \in Workers : RecollectClaim(w)
    \/ \E w \in Workers : RecollectAttempt(w)
    \/ \E w \in Workers : RecollectGate(w)
    \/ \E w \in Workers : RecollectPass(w)

RecollectSpec == RecollectInit /\ [][RecollectNext]_vars

(***************************************************************************)
(* FingerprintSpec: the finding and task records the two plugins build,   *)
(* in whatever run, pass, instant and artifact directory.                 *)
(***************************************************************************)
\* what of core.RunContext and of the moment reaches Normalize and Plan:
\* the run id, the pass (Command.Run's or a checkpoint's), the artifact
\* root the report path lies under, time.Now()
BuildContexts ==
    [RunID : {RunID, OtherRunID}, pass : {"baseline", "checkpoint"},
     ArtifactRoot : {"/art/1", "/art/2"}, now : 0..MaxBuildClock]

\* pytestTest: node id (file, test), outcome, longrepr and crash message
PytestTests ==
    [NodeID : {<<"a.py", "t1">>, <<"a.py", "t2">>},
     Outcome : {"passed", "failed", "error"},
     Longrepr : {"", "assert 1 == 2"},
     Crash : {"boom"}]

\* percent_covered of a file, in thousandths of a percent
Percents == {4, 6, 14, 16}

\* fmt's %.2f of a percentage: its nearest hundredth
FormatPercent(p) == (p + 5) \div 10

\* hashFinding: sha256 of nodeID|outcome|message, one value per triple
hashFinding(nodeID, outcome, message) == <<nodeID, outcome, message>>

\* hashCoverage: sha256 of fmt.Sprintf("%s|%.2f", file, percent)
hashCoverage(target, percent) == <<target, FormatPercent(percent)>>

\* nodeIDFile: the part of the node id before the first "::"
nodeIDFile(nodeID) == nodeID[1]

\* pytest Normalize: message := test.Longrepr.String(), else the crash message
PrimaryMessage(test) ==
    IF test.Longrepr # "" THEN test.Longrepr ELSE test.Crash

\* faulty variant: the run id is hashed into the fingerprint
PytestFindingRunScoped(rc, test) ==
    [RunID |-> rc.RunID, Tool |-> "pytest", pass |-> rc.pass,
     Outcome |-> test.Outcome,
     Fingerprint |-> <<rc.RunID, hashFinding(test.NodeID, test.Outcome, PrimaryMessage(test))>>,
     Message |-> PrimaryMessage(test), FilePath |-> nodeIDFile(test.NodeID),
     TestID |-> test.NodeID, RawRef |-> <<rc.ArtifactRoot, "pytest", "report.json">>,
     CreatedAt |-> rc.now]

\* pytest Normalize: the FindingRecord of a failed or errored test (pass
\* and Outcome are not columns: they tell what the record was built from)
PytestFinding(rc, test) ==
    [RunID |-> rc.RunID, Tool |-> "pytest", pass |-> rc.pass,
     Outcome |-> test.Outcome,
     Fingerprint |-> hashFinding(test.NodeID, test.Outcome, PrimaryMessage(test)),
     Message |-> PrimaryMessage(test), FilePath |-> nodeIDFile(test.NodeID),
     TestID |-> test.NodeID, RawRef |-> <<rc.ArtifactRoot, "pytest", "report.json">>,
     CreatedAt |-> rc.now]

\* coverage Normalize: the FindingRecord of a file below the threshold
\* (pass and Percent are not columns)
CoverageFinding(rc, target, percent) ==
    [RunID |-> rc.RunID, Tool |-> "coverage", pass |-> rc.pass,
     Percent |-> percent,
     Fingerprint |-> hashCoverage(target, percent),
     FilePath |-> target, RawRef |-> <<rc.ArtifactRoot, "coverage", "coverage.json">>,
     CreatedAt |-> rc.now]

\* Plan of either plugin: the TaskRecord for a file with findings
PlannedTask(rc, tool, target) ==
    [RunID |-> rc.RunID, Tool |-> tool, pass |-> rc.pass, TaskType |-> "fix",
     Fingerprint |-> hashTask(tool, target), File |-> target, CreatedAt |-> rc.now]

FingerprintOthers ==
    <<PoolVars, adapterVars, emitVars, gateVars, insertVars, rv, rn, vj, ex>>

\* pytest Normalize appends a finding for a test that failed or errored
NormalizePytest ==
    /\ Len(built) < MaxRecordsBuilt
    /\ \E rc \in BuildContexts, test \in PytestTests :
          /\ test.Outcome \in {"failed", "error"}
          /\ built' = Append(built, PytestFinding(rc, test))
    /\ UNCHANGED FingerprintOthers

\* coverage Normalize appends a finding for a file below the threshold
NormalizeCoverage ==
    /\ Len(built) < MaxRecordsBuilt
    /\ \E rc \in BuildContexts, target \in {"a.py", "b.py"}, percent \in Percents :
          built' = Append(built, CoverageFinding(rc, target, percent))
    /\ UNCHANGED FingerprintOthers

\* Plan appends the task for a file that has findings
PlanTask ==
    /\ Len(built) < MaxRecordsBuilt
    /\ \E rc \in BuildContexts, tool \in {"pytest", "coverage"}, target \in {"a.py", "b.py"} :
          built' = Append(built, PlannedTask(rc, tool, target))
    /\ UNCHANGED FingerprintOthers

FingerprintInit ==
    /\ PoolIdle /\ AdapterIdle /\ EmitIdle /\ GateIdle /\ InsertIdle /\ FnIdle

FingerprintNext ==
    \/ NormalizePytest
    \/ NormalizeCoverage
    \/ PlanTask

FingerprintSpec == FingerprintInit /\ [][FingerprintNext]_vars

(***************************************************************************)
(* ValidationJSONSpec: a core.ValidationSpec goes through json.Marshal,   *)
(* the validation_json column and the worker's validationSpec.  A Go      *)
(* slice or map is a record that tells whether it is nil; a JSON value is *)
(* a record with its type t and, for an object, one field per member.     *)
(***************************************************************************)
NilSlice == [nil |-> TRUE, items |-> <<>>]
Slice(items) == [nil |-> FALSE, items |-> items]
NilMap == [nil |-> TRUE, kv |-> {}]
Map(kv) == [nil |-> FALSE, kv |-> kv]

\* core.CommandSpec values
CommandSpecs ==
    [Runner : {"python"},
     Args : {NilSlice, Slice(<<>>), Slice(<<"python", "-m", "pytest", "-q">>),
             Slice(<<"python", "-m", "pytest", "-q", "a.py::t1">>)},
     Env : {NilMap, Map({}), Map({<<"CI", "1">>})},
     Cwd : {"", "/repo"},
     TimeoutSeconds : 0..MaxSpecNumber]

\* core.SuccessCriteria values (MinCoverageDelta is left at zero and is
\* omitted as MaxNewFindings is)
SuccessCriteriaValues ==
    [RequireExitCode0 : BOOLEAN, MaxNewFindings : 0..MaxSpecNumber]

\* core.ValidationSpec values
ValidationSpecs ==
    [Commands : {NilSlice} \cup
                {Slice(cs) : cs \in UNION {[1..n -> CommandSpecs] : n \in 0..MaxSpecCmds}},
     SuccessCriteria : SuccessCriteriaValues]

\* a member of a JSON object that is written only if keep holds (omitempty)
Member(keep, key, value) ==
    IF keep THEN key :> value ELSE <<>>

JSONString(x) == [t |-> "string", v |-> x]
JSONNumber(n) == [t |-> "number", v |-> n]
JSONNull == [t |-> "null"]

\* json.Marshal of a []string: null for nil, else the array
MarshalStrings(sl) ==
    IF sl.nil THEN JSONNull
    ELSE [t |-> "array", v |-> [i \in 1..Len(sl.items) |-> JSONString(sl.items[i])]]

\* json.Marshal of a map[string]string
MarshalEnv(m) ==
    [t |-> "object", v |-> m.kv]

\* faulty variant: args is tagged omitempty as env is
MarshalCommandArgsOmitted(c) ==
    [t |-> "object",
     v |-> ("runner" :> JSONString(c.Runner))
           @@ Member(Len(c.Args.items) # 0, "args", MarshalStrings(c.Args))
           @@ Member(c.Env.kv # {}, "env", MarshalEnv(c.Env))
           @@ Member(c.Cwd # "", "cwd", JSONString(c.Cwd))
           @@ Member(c.TimeoutSeconds # 0, "timeout_seconds", JSONNumber(c.TimeoutSeconds))]

\* json.Marshal of a CommandSpec: runner and args always, env, cwd and
\* timeout_seconds unless empty
MarshalCommand(c) ==
    [t |-> "object",
     v |-> ("runner" :> JSONString(c.Runner))
           @@ ("args" :> MarshalStrings(c.Args))
           @@ Member(c.Env.kv # {}, "env", MarshalEnv(c.Env))
           @@ Member(c.Cwd # "", "cwd", JSONString(c.Cwd))
           @@ Member(c.TimeoutSeconds # 0, "timeout_seconds", JSONNumber(c.TimeoutSeconds))]

\* json.Marshal of a SuccessCriteria
MarshalCriteria(sc) ==
    [t |-> "object",
     v |-> ("require_exit_code_0" :> [t |-> "bool", v |-> sc.RequireExitCode0])
           @@ Member(sc.MaxNewFindings # 0, "max_new_findings", JSONNumber(sc.MaxNewFindings))]

\* json.Marshal(spec), as runCheckpoint and Command.Run call it
Marshal(spec) ==
    [t |-> "object",
     v |-> ("commands" :>
              IF spec.Commands.nil THEN JSONNull
              ELSE [t |-> "array",
                    v |-> [i \in 1..Len(spec.Commands.items) |->
                             MarshalCommand(spec.Commands.items[i])]])
           @@ ("success_criteria" :> MarshalCriteria(spec.SuccessCriteria))]

\* the member of a JSON object, or absent
Has(obj, key) == key \in DOMAIN obj.v

\* json.Unmarshal into a []string that is nil
UnmarshalStrings(j) ==
    IF j.t = "null" THEN NilSlice
    ELSE Slice([i \in 1..Len(j.v) |-> j.v[i].v])

\* json.Unmarshal into the zero CommandSpec
UnmarshalCommand(j) ==
    [Runner |-> IF Has(j, "runner") THEN j.v["runner"].v ELSE "",
     Args |-> IF Has(j, "args") THEN UnmarshalStrings(j.v["args"]) ELSE NilSlice,
     Env |-> IF Has(j, "env") /\ j.v["env"].t # "null" THEN Map(j.v["env"].v) ELSE NilMap,
     Cwd |-> IF Has(j, "cwd") THEN j.v["cwd"].v ELSE "",
     TimeoutSeconds |-> IF Has(j, "timeout_seconds") THEN j.v["timeout_seconds"].v ELSE 0]

\* json.Unmarshal into the zero SuccessCriteria
UnmarshalCriteria(j) ==
    [RequireExitCode0 |-> IF Has(j, "require_exit_code_0")
                          THEN j.v["require_exit_code_0"].v ELSE FALSE,
     MaxNewFindings |-> IF Has(j, "max_new_findings") THEN j.v["max_new_findings"].v ELSE 0]

\* validationSpec: json.Unmarshal([]byte(validationJSON), &spec)
validationSpec(j) ==
    [Commands |->
        IF ~Has(j, "commands") \/ j.v["commands"].t = "null" THEN NilSlice
        ELSE Slice([i \in 1..Len(j.v["commands"].v) |->
                      UnmarshalCommand(j.v["commands"].v[i])]),
     SuccessCriteria |->
        IF Has(j, "success_criteria") THEN UnmarshalCriteria(j.v["success_criteria"])
        ELSE [RequireExitCode0 |-> FALSE, MaxNewFindings |-> 0]]

\* `var spec core.ValidationSpec`
ZeroValidationSpec ==
    [Commands |-> NilSlice,
     SuccessCriteria |-> [RequireExitCode0 |-> FALSE, MaxNewFindings |-> 0]]

ValidationJSONOthers ==
    <<PoolVars, adapterVars, emitVars, gateVars, insertVars, rv, rn, built, ex>>

\* json.Marshal(spec); tasks[i].ValidationJSON = string(validationJSON)
MarshalSpec ==
    /\ vj.at = "spec"
    /\ vj' = [vj EXCEPT !.at = "marshalled", !.json = Marshal(vj.V)]
    /\ UNCHANGED ValidationJSONOthers

\* InsertTasks writes the text into validation_json, ClaimNextTask scans
\* the column into task.ValidationJSON
StoreAndClaim ==
    /\ vj.at = "marshalled"
    /\ vj' = [vj EXCEPT !.at = "claimed"]
    /\ UNCHANGED ValidationJSONOthers

\* runWorker: validationSpec(task.ValidationJSON)
DecodeSpec ==
    /\ vj.at = "claimed"
    /\ vj' = [vj EXCEPT !.at = "decoded", !.out = validationSpec(vj.json)]
    /\ UNCHANGED ValidationJSONOthers

\* plugin.ValidationSpec has returned V
ValidationJSONInit ==
    /\ PoolIdle /\ AdapterIdle /\ EmitIdle /\ GateIdle /\ InsertIdle
    /\ rv = [at |-> "idle"]
    /\ rn = [at |-> "idle"]
    /\ built = <<>>
    /\ ex = [at |-> "idle"]
    /\ \E V \in ValidationSpecs :
          vj = [at |-> "spec", V |-> V, json |-> JSONNull, out |-> ZeroValidationSpec]

ValidationJSONNext ==
    \/ MarshalSpec
    \/ StoreAndClaim
    \/ DecodeSpec

ValidationJSONSpec == ValidationJSONInit /\ [][ValidationJSONNext]_vars

(***************************************************************************)
(* ExecutorSpec: one call of Executor.Run, from its first statement to    *)
(* its return; of runWorker only its start and its return are followed.   *)
(***************************************************************************)
\* faulty variant: the configured value is taken as it is
WorkerCountUnclamped(maxWorkers) == maxWorkers

\* workers := e.RunContext.Config.MaxWorkers; if workers < 1 { workers = 1 }
WorkerCount(maxWorkers) == IF maxWorkers < 1 THEN 1 ELSE maxWorkers

ExecutorOthers ==
    <<PoolVars, adapterVars, emitVars, gateVars, insertVars, rv, rn, built, vj>>

\* the statements before the loop: workers, the WaitGroup, the tracker
ExecutorBegin ==
    /\ ex.at = "called"
    /\ ex' = [ex EXCEPT !.at = "loop", !.workers = WorkerCount(ex.MaxWorkers)]
    /\ UNCHANGED ExecutorOthers

\* one iteration of the loop: wg.Add(1) and the go statement, whose
\* argument i + 1 is evaluated here and formatted by the goroutine
ExecutorGo ==
    /\ ex.at = "loop"
    /\ ex.i < ex.workers
    /\ ex' = [ex EXCEPT !.wg = @ + 1,
                        !.ids = Append(@, WorkerID(ex.i + 1)),
                        !.goroutine = Append(@, "started"),
                        !.i = @ + 1]
    /\ UNCHANGED ExecutorOthers

\* the loop condition fails: wg.Wait() is reached
ExecutorLoopEnd ==
    /\ ex.at = "loop"
    /\ ex.i >= ex.workers
    /\ ex' = [ex EXCEPT !.at = "wait"]
    /\ UNCHANGED ExecutorOthers

\* a started goroutine is scheduled and enters runWorker
WorkerEnters(k) ==
    /\ ex.at \in {"loop", "wait"}
    /\ k \in 1..Len(ex.goroutine)
    /\ ex.goroutine[k] = "started"
    /\ ex' = [ex EXCEPT !.goroutine[k] = "working"]
    /\ UNCHANGED ExecutorOthers

\* runWorker returns, by whichever of its returns; the deferred wg.Done()
WorkerReturns(k) ==
    /\ ex.at \in {"loop", "wait"}
    /\ k \in 1..Len(ex.goroutine)
    /\ ex.goroutine[k] = "working"
    /\ ex' = [ex EXCEPT !.goroutine[k] = "exited", !.wg = @ - 1]
    /\ UNCHANGED ExecutorOthers

\* wg.Wait() returns when the counter is zero; return nil
ExecutorReturn ==
    /\ ex.at = "wait"
    /\ ex.wg = 0
    /\ ex' = [ex EXCEPT !.at = "returned"]
    /\ UNCHANGED ExecutorOthers

ExecutorInit ==
    /\ PoolIdle /\ AdapterIdle /\ EmitIdle /\ GateIdle /\ InsertIdle
    /\ rv = [at |-> "idle"]
    /\ rn = [at |-> "idle"]
    /\ built = <<>>
    /\ vj = [at |-> "idle"]
    /\ \E n \in -1..MaxExecutorWorkers :
          ex = [at |-> "called", MaxWorkers |-> n, workers |-> 0, i |-> 0,
                wg |-> 0, ids |-> <<>>, goroutine |-> <<>>]

ExecutorNext ==
    \/ ExecutorBegin
    \/ ExecutorGo
    \/ ExecutorLoopEnd
    \/ \E k \in 1..MaxExecutorWorkers : WorkerEnters(k)
    \/ \E k \in 1..MaxExecutorWorkers : WorkerReturns(k)
    \/ ExecutorReturn

ExecutorSpec == ExecutorInit /\ [][ExecutorNext]_vars

(***************************************************************************)
(* Properties.  The vocabulary below is that of the statements, written   *)
(* on the tables directly.                                                *)
(***************************************************************************)
\* the rows of the run that are queued
QueuedRunRows == {i \in 1..Len(tasks) : tasks[i].run_id = RunID /\ tasks[i].status = "queued"}

\* worker w's ClaimNextTask returns a task in this step
ClaimReturnsTask(w) == claimResult[w] = "pending" /\ claimResult'[w] = "task"

\* the attempts of task t
AttemptsOf(t) == {i \in 1..Len(attempts) : attempts[i].task_id = t}

\* worker w has written the outcome of its attempt and of its task
OutcomeWritten(w) == pc[w] = "finalize"

\* C1: under any interleaving of workers calling ClaimNextTask, no task is
\* returned to callers more than once (so never to two different callers),
\* and a task that has left 'queued' never is queued again nor has its
\* claimed_by set again.
C1_ClaimAtMostOnce ==
    /\ [](\A t \in 1..Len(returned) : returned[t] <= 1)
    /\ [][\A t \in 1..Len(tasks) :
             tasks[t].status # "queued" =>
                /\ tasks'[t].status # "queued"
                /\ tasks'[t].claimed_by = tasks[t].claimed_by]_vars

\* C1 witness: two workers raced for the same claim; one was returned its
\* task, the other's transaction failed, and a second task was returned
\* to nobody else than the worker holding it.
C1_Witness ==
    \E w1, w2 \in Workers :
        /\ w1 # w2
        /\ claimResult[w1] = "task" /\ task[w1] # 0
        /\ returned[task[w1]] = 1
        /\ tasks[task[w1]].claimed_by = WorkerID(w1)
        /\ claimResult[w2] = "error"

\* C2: a ClaimNextTask that returns a task returns a row that was queued
\* in the run, of the highest priority among the run's queued rows, and
\* among the rows of that priority one of the earliest created_at.
C2_ClaimOrder ==
    [][\A w \in Workers :
          ClaimReturnsTask(w) =>
             /\ task'[w] \in QueuedRunRows
             /\ \A j \in QueuedRunRows :
                   /\ tasks[j].priority <= tasks[task'[w]].priority
                   /\ tasks[j].priority = tasks[task'[w]].priority =>
                         tasks[task'[w]].created_at <= tasks[j].created_at]_vars

\* C2 witness: a worker was returned a task while a row of the same
\* priority and a later created_at is queued in the run.
C2_Witness ==
    \E w \in Workers :
        /\ pc[w] = "attempt" /\ claimResult[w] = "task"
        /\ \E j \in QueuedRunRows :
              /\ tasks[j].priority = tasks[task[w]].priority
              /\ tasks[j].created_at > tasks[task[w]].created_at

\* C3: a ClaimNextTask on a run without a queued row returns no task and
\* no error, and leaves the task, attempt and run records as they were.
C3_EmptyQueueClaim ==
    [][\A w \in Workers :
          (pc[w] = "claim" /\ pc'[w] # "claim" /\ QueuedRunRows = {}) =>
             /\ claimResult'[w] = "none"
             /\ tasks' = tasks
             /\ attempts' = attempts
             /\ runStatus' = runStatus]_vars

\* C3 witness: a worker's claim returned nothing on a run whose rows are
\* all past 'queued', with attempts recorded.
C3_Witness ==
    \E w \in Workers :
        /\ claimResult[w] = "none"
        /\ QueuedRunRows = {}
        /\ \E i \in 1..Len(tasks) : tasks[i].run_id = RunID
        /\ attempts # <<>>

\* C4: a task's status changes only from queued to running and from
\* running to succeeded, blocked or abandoned.
C4_StatusForward ==
    [][\A t \in 1..Len(tasks) :
          tasks'[t].status # tasks[t].status =>
             \/ tasks[t].status = "queued" /\ tasks'[t].status = "running"
             \/ /\ tasks[t].status = "running"
                /\ tasks'[t].status \in {"succeeded", "blocked", "abandoned"}]_vars

\* C4 witness: one task of the run went through to succeeded, another to
\* blocked.
C4_Witness ==
    \E t1, t2 \in 1..Len(tasks) :
        /\ tasks[t1].status = "succeeded" /\ tasks[t1].claimed_by # ""
        /\ tasks[t2].status = "blocked" /\ tasks[t2].claimed_by # ""

\* C5: a running task names, in claimed_by, the worker that claimed it
\* (a non-empty id); a queued task has no claimant.
C5_ClaimantInvariant ==
    \A t \in 1..Len(tasks) :
        /\ tasks[t].status = "running" =>
              /\ tasks[t].claimed_by # ""
              /\ \E w \in Workers :
                    /\ task[w] = t /\ claimResult[w] = "task"
                    /\ tasks[t].claimed_by = WorkerID(w)
        /\ tasks[t].status = "queued" => tasks[t].claimed_by = ""

\* C5 witness: a task is running, claimed by the second worker, while a
\* row of the run is still queued.
C5_Witness ==
    /\ \E t \in 1..Len(tasks) :
          tasks[t].status = "running" /\ tasks[t].claimed_by = "worker-2"
    /\ QueuedRunRows # {}

\* C6: the attempt_no values of a task's attempts are 1..k, k the number
\* of its attempts: no gap, no duplicate.
C6_AttemptNumbers ==
    \A t \in 1..Len(tasks) :
        /\ {attempts[i].attempt_no : i \in AttemptsOf(t)} = 1..Cardinality(AttemptsOf(t))
        /\ \A i, j \in AttemptsOf(t) :
              attempts[i].attempt_no = attempts[j].attempt_no => i = j

\* C6 witness: two workers have each created an attempt, for two tasks.
C6_Witness ==
    \E i, j \in 1..Len(attempts) :
        /\ attempts[i].task_id # attempts[j].task_id
        /\ attempts[i].attempt_no = 1 /\ attempts[j].attempt_no = 1

C8_ReportAdvisory ==
    /\ \A w1, w2 \in Workers :
          (/\ OutcomeWritten(w1) /\ OutcomeWritten(w2)
           /\ agentRes[w1].err = agentRes[w2].err
           /\ valExit[w1] = valExit[w2]) =>
             /\ attempts[attemptID[w1]].status = attempts[attemptID[w2]].status
             /\ tasks[task[w1]].status = tasks[task[w2]].status
    /\ \A w \in Workers :
          (/\ OutcomeWritten(w)
           /\ agentRes[w].status = "success"
           /\ valExit[w] # 0) =>
             /\ attempts[attemptID[w]].status = "failed"
             /\ tasks[task[w]].status = "blocked"

\* C8 witness: two outcomes are written for the same agent error and the
\* same non-zero validation exit, one result reporting success, the other
\* failure.
C8_Witness ==
    \E w1, w2 \in Workers :
        /\ OutcomeWritten(w1) /\ OutcomeWritten(w2)
        /\ ~agentRes[w1].err /\ ~agentRes[w2].err
        /\ agentRes[w1].status = "success" /\ agentRes[w2].status = "failure"
        /\ valExit[w1] # 0 /\ valExit[w2] = valExit[w1]

\* C9: an attempt whose change set touches a path outside allowed_paths
\* or a read-only path ends 'failed', and its task is not 'succeeded'.
C9_EnforcementRejection ==
    \A w \in Workers :
        (/\ OutcomeWritten(w)
         /\ \/ ~(agentRes[w].files \subseteq AllowedPaths)
            \/ agentRes[w].files \cap ReadOnlyPaths # {}) =>
           /\ attempts[attemptID[w]].status = "failed"
           /\ tasks[task[w]].status # "succeeded"

\* C10: the workers inside Agent.Invoke are at most max_agent_workers.
C10_AgentConcurrency ==
    Cardinality({w \in Workers : pc[w] = "agent"}) <= cfg.max_agent_workers

\* C11: an adapter that reads its result from a child process (codex,
\* cli) returns no result whose schema_version, run_id or task_id differs
\* from the request's: Invoke returns an error instead.
C11_ResultMatchesRequest ==
    (adIn.adapter \in {"codex", "cli"} /\ adOut # <<>>) =>
       \/ adOut[1].err
       \/ /\ adOut[1].result.schema = adIn.req.schema
          /\ adOut[1].result.run = adIn.req.run
          /\ adOut[1].result.task = adIn.req.task

\* C12: a worker whose workspace preparation or validation-spec parsing
\* failed for the task it holds does not leave its loop: after marking the
\* task blocked and the attempt failed it goes on to claim again.
C12_LocalRecovery ==
    [][\A w \in Workers :
          pc[w] \in {"prepare", "parse", "fail_finish"} => pc'[w] # "exited"]_vars

\* the rows of the run
RunRows == {i \in 1..Len(tasks) : tasks[i].run_id = RunID}

\* wg.Wait() of Executor.Run is over: every worker has returned
PoolDone == \A w \in Workers : pc[w] = "exited"

CancelledInPool == cancelAt = "executor"

\* C14: when the run context is cancelled while the workers are at work,
\* then once every worker has returned every attempt that was in flight
\* is closed (none is left 'running') and its task is no longer 'running'
\* (it was moved to 'blocked').
C14_CancelCleanup ==
    (CancelledInPool /\ PoolDone) =>
        \A i \in 1..Len(attempts) :
            /\ attempts[i].status # "running"
            /\ tasks[attempts[i].task_id].status # "running"

\* Command.Run has returned
RunReturned == cpc = "returned"

\* C15: when the run context is cancelled after the run record was created
\* and before the run's terminal status is written (here: while the pool
\* is at work), Command.Run returns with the run record 'failed', neither
\* left 'running' nor marked 'succeeded'.
C15_CancelMarksFailed ==
    (RunReturned /\ CancelledInPool) => runStatus = "failed"

\* C16: on every path by which Command.Run returns after creating the run
\* record (no cancellation involved), the record has been moved from
\* 'running' to a terminal status: it is never left 'running'.
C16_RunLifecycle ==
    (RunReturned /\ runStatus # "none" /\ ~Cancelled) =>
        runStatus \in {"succeeded", "failed"}

\* C17: a failing Emit is not load-bearing: when Emit failures are the only
\* faults of an execution (no plugin error, no store error, no
\* cancellation), Command.Run still runs the worker pool to its end and
\* writes the terminal run status 'succeeded' before returning, as the
\* execution without the failures does.
C17_EmitNotLoadBearing ==
    (RunReturned /\ faults = {"emit"} /\ ~Cancelled) =>
        /\ \A w \in Workers : pc[w] = "exited"
        /\ runStatus = "succeeded"

\* C18: the event log records every transition: once a task of the run is
\* queued the log holds a task_queued event, once one is claimed a
\* task_claimed event, once an attempt is started an attempt_started
\* event, once one is finished an attempt_finished event.
C18_TransitionsLogged ==
    /\ RunRows # {} => "task_queued" \in log
    /\ (\E t \in RunRows : tasks[t].status # "queued") => "task_claimed" \in log
    /\ attempts # <<>> => "attempt_started" \in log
    /\ (\E i \in 1..Len(attempts) : attempts[i].status # "running") =>
           "attempt_finished" \in log

\* a plugin call failed during seeding, and nothing else went wrong
PluginErrorOnly == faults = {"plugin"}

\* C20: when a plugin's collect, normalize, plan or validation_spec fails
\* during seeding, Command.Run returns the error with the run 'failed',
\* no worker was started (none ever claims or attempts anything), and from
\* the error on the artifacts, findings and tasks already inserted stay
\* as they are.
C20_PluginErrorAborts ==
    /\ []((RunReturned /\ PluginErrorOnly) =>
             /\ runStatus = "failed"
             /\ result = "error"
             /\ \A w \in Workers : pc[w] = "idle"
             /\ attempts = <<>>)
    /\ [][("plugin" \in faults) =>
             /\ tasks' = tasks
             /\ artifacts' = artifacts
             /\ findings' = findings]_vars

C20_Witness ==
    /\ RunReturned
    /\ PluginErrorOnly
    /\ runStatus = "failed"
    /\ RunRows # {}
    /\ findings > 0
    /\ artifacts > PytestArtifacts

(***************************************************************************)
(* The event log file (EmitSpec).                                         *)
(***************************************************************************)
\* the callers between taking the timestamp and completing the write
Writing == {c \in EmitCallers : epc[c] \in {"marshal", "write", "write_rest"}}

\* C19: Emit calls exclude each other: at most one caller is between
\* taking its timestamp and completing its write (and it holds the
\* mutex); every record is one whole line, its two chunks next to each
\* other in the file, the last line alone possibly still being written;
\* the timestamps do not decrease along the file.
C19_SerializedWrites ==
    /\ Cardinality(Writing) <= 1
    /\ \A c \in Writing : mu = c
    /\ \A i \in 1..Len(file) :
          IF i % 2 = 1
          THEN /\ file[i].part = 1
               /\ i = Len(file) => epc[file[i].by] = "write_rest"
          ELSE /\ file[i].part = 2
               /\ file[i].by = file[i - 1].by
               /\ file[i].ts = file[i - 1].ts
    /\ \A i, j \in 1..Len(file) : i < j => file[i].ts <= file[j].ts

\* two callers were in Emit at once, one waiting at the lock while the
\* other wrote the second record of the file, stamped a second later
C19_Witness ==
    /\ Len(file) = 3
    /\ file[1].by # file[3].by
    /\ file[1].ts < file[3].ts
    /\ epc[file[1].by] = "lock"
    /\ epc[file[3].by] = "write_rest"

(***************************************************************************)
(* The checkpoint pass and the end of the run.                            *)
(***************************************************************************)
\* a plugin call or a store insert failed inside a checkpoint pass, and
\* nothing else went wrong in the run
CheckpointFaultOnly == faults = {"checkpoint"} /\ ~Cancelled

\* C21: a plugin or store error inside a checkpoint pass aborts the run:
\* when Command.Run returns after such an error, the run is 'failed' and
\* no success is reported.
C21_CheckpointErrorAborts ==
    (RunReturned /\ CheckpointFaultOnly) =>
        runStatus = "failed" /\ result = "error"

\* worker w takes a step of a checkpoint pass
CheckpointStepOf(w) ==
    pc[w] \in {"ckpt_pytest", "ckpt_coverage"} /\ pc'[w] # pc[w]

\* C22: a checkpoint pass only appends.  Each of its steps leaves every
\* existing task row and every attempt as it is, whatever their status,
\* removes no finding, and adds each planned task as a new 'queued' row,
\* also when the run already has a row with the same fingerprint.
C22_CheckpointAppends ==
    [][\A w \in Workers : CheckpointStepOf(w) =>
          /\ Len(tasks') = Len(tasks) + (inserted' - inserted)
          /\ SubSeq(tasks', 1, Len(tasks)) = tasks
          /\ \A i \in (Len(tasks) + 1)..Len(tasks') : tasks'[i].status = "queued"
          /\ findings' >= findings
          /\ findings' - findings >= inserted' - inserted
          /\ attempts' = attempts]_vars

\* after a pass: two rows of the run with one fingerprint, the older one
\* attempted and finished, the newer one queued
C22_Witness ==
    \E i, j \in RunRows :
        /\ i < j
        /\ tasks[i].fingerprint = tasks[j].fingerprint
        /\ tasks[i].status \in {"succeeded", "blocked"}
        /\ AttemptsOf(i) # {}
        /\ tasks[j].status = "queued"
        /\ inserted > 0

(***************************************************************************)
(* The checkpoint gate (GateSpec).                                        *)
(***************************************************************************)
\* the callers inside ShouldRun's critical section
InGate == {c \in GateCallers : gpc[c] \in {"since", "compare", "set", "unlock"}}

\* the instant of the checkpoint before the k-th (the tracker's creation
\* for the first)
GrantBefore(k) == IF k = 1 THEN 0 ELSE grants[k - 1]

\* C23: the gate is serialized.  At most one worker is inside ShouldRun
\* at a time, and ShouldRun returns true only when at least the interval
\* has passed since it last returned true (or since the tracker was
\* made): for every interleaving, successive true returns are at least
\* one interval apart.
C23_GateSerialized ==
    /\ Cardinality(InGate) <= 1
    /\ \A c \in InGate : tracker.mu = c
    /\ \A k \in 1..Len(grants) : grants[k] - GrantBefore(k) >= tracker.interval
    /\ tracker.lastRun = GrantBefore(Len(grants) + 1)

\* the gate has opened twice; now one worker holds it and has found the
\* interval not yet over while another waits at the lock
C23_Witness ==
    /\ Len(grants) = 2
    /\ tracker.interval = 2
    /\ \E c, d \in GateCallers :
          /\ gpc[c] = "lock"
          /\ gpc[d] = "compare"
          /\ gsince[d] < tracker.interval

(***************************************************************************)
(* The run's summary.                                                     *)
(***************************************************************************)
\* C24: when Command.Run returns success, the findings and tasks counts
\* the run reports in its summary (summary_json, the summary of
\* summary.json and of the Result) equal the numbers of findings and
\* tasks inserted for the run, those of checkpoint passes included.
C24_SummaryCounts ==
    (RunReturned /\ result = "ok") =>
        /\ summary.Findings = findings
        /\ summary.Tasks = Cardinality(RunRows)

(***************************************************************************)
(* The batch inserts (InsertSpec).                                        *)
(***************************************************************************)
\* a batch insert called with an empty batch has returned
EmptyInsertReturned == ins.at = "returned" /\ ins.k = 0

\* C25: InsertFindings and InsertTasks called with an empty batch return
\* nil, begin and commit no transaction and leave the tables as they were.
C25_EmptyBatchNoOp ==
    EmptyInsertReturned =>
        /\ ins.res = "nil"
        /\ txs = ins.before.txs
        /\ tasks = ins.before.tasks
        /\ findings = ins.before.findings

\* an empty InsertTasks has returned on a store that holds rows which a
\* committed transaction inserted before
C25_Witness ==
    /\ EmptyInsertReturned
    /\ ins.kind = "tasks"
    /\ tasks # <<>>
    /\ findings > 0
    /\ txs.committed = 2

(***************************************************************************)
(* runValidation (ValidationRunSpec).                                     *)
(***************************************************************************)
\* the commands runValidation has run so far all ran without a runner
\* error and exited zero
CleanSoFar ==
    \A j \in 1..(rv.i - 1) : ~rv.cmds[j].err /\ rv.cmds[j].exit = 0

\* C26: the exit code runValidation has computed, after every command and
\* at its return, is zero exactly if every command run so far ran without
\* a runner error and exited zero: it is zero for no commands, and a
\* command that exits zero never brings it back to zero.
C26_ValidationExitCode ==
    rv.at \in {"loop", "returned"} => (rv.exitCode = 0 <=> CleanSoFar)

\* runValidation has returned non-zero for three commands of which the
\* first exited non-zero and the later two ran and exited zero
C26_Witness ==
    /\ rv.at = "returned"
    /\ Len(rv.cmds) = 3
    /\ rv.cmds[1].exit # 0
    /\ \A j \in 2..3 : ~rv.cmds[j].err /\ rv.cmds[j].exit = 0
    /\ rv.exitCode = rv.cmds[1].exit

(***************************************************************************)
(* GenericRunner.Run (RunnerSpec).                                        *)
(***************************************************************************)
\* Run has returned for a command with arguments
RunnerReturned == rn.at = "returned" /\ rn.cmd.Args = "argv"

\* the capture files were created and the process started
ProcessRan ==
    RunnerReturned /\ rn.world.create = "ok" /\ rn.world.start = "ok"

\* the process started and was still running at the command's deadline
TimedOut ==
    ProcessRan /\ rn.cmd.TimeoutSeconds > 0
               /\ rn.world.secs >= rn.cmd.TimeoutSeconds

\* C27: Run returns an error when a capture file cannot be created or the
\* process cannot be started, whatever AllowNonZero is; for a process that
\* ran and exited non-zero it returns an error if AllowNonZero is unset
\* and that exit code with no error if it is set; a command that runs past
\* its timeout yields an error or a non-zero exit code.
C27_RunnerErrors ==
    /\ (RunnerReturned /\ ~ProcessRan) => rn.err
    /\ (ProcessRan /\ ~TimedOut /\ rn.world.code # 0) =>
          IF rn.cmd.AllowNonZero
          THEN ~rn.err /\ rn.ExitCode = rn.world.code
          ELSE rn.err
    /\ TimedOut => (rn.err \/ rn.ExitCode # 0)

(***************************************************************************)
(* Repeated checkpoint passes (RecollectSpec).                            *)
(***************************************************************************)
\* the tasks of the run that carry the fingerprint of task i
SameFingerprint(i) ==
    {j \in RunRows : tasks[j].fingerprint = tasks[i].fingerprint}

\* the attempts made on those tasks
AttemptsOnFingerprint(i) == UNION {AttemptsOf(j) : j \in SameFingerprint(i)}

\* C28: in one run, the tasks created for one task fingerprint, and the
\* attempts made on them, are no more than the configured retry cap,
\* however often checkpoint passes collect the same failure again.
C28_BoundedRetries ==
    \A i \in RunRows :
        /\ Cardinality(SameFingerprint(i)) <= RetryCap
        /\ Cardinality(AttemptsOnFingerprint(i)) <= RetryCap

(***************************************************************************)
(* Fingerprints (FingerprintSpec).                                        *)
(***************************************************************************)
\* the records of the given kind built so far
PytestFindings == {i \in 1..Len(built) : built[i].Tool = "pytest" /\ "TestID" \in DOMAIN built[i]}
CoverageFindings == {i \in 1..Len(built) : built[i].Tool = "coverage" /\ "Percent" \in DOMAIN built[i]}
PlannedTasks == {i \in 1..Len(built) : "TaskType" \in DOMAIN built[i]}

NoEmptyEnv(V) ==
    \A i \in 1..Len(V.Commands.items) :
        V.Commands.items[i].Env.nil \/ V.Commands.items[i].Env.kv # {}

\* the spec is of the shape the plugins' ValidationSpec functions return:
\* commands for the python runner with arguments and no Env and timeout,
\* exit code zero required
PluginShaped(V) ==
    /\ ~V.Commands.nil
    /\ Len(V.Commands.items) >= 1
    /\ \A i \in 1..Len(V.Commands.items) :
          LET c == V.Commands.items[i]
          IN  /\ ~c.Args.nil /\ c.Args.items # <<>>
              /\ c.Env.nil
              /\ c.TimeoutSeconds = 0
    /\ V.SuccessCriteria = [RequireExitCode0 |-> TRUE, MaxNewFindings |-> 0]

\* C30: the spec the worker decodes from validation_json equals the spec
\* that was marshalled, command by command in the same order, for every
\* spec of the plugins' shape and for every spec without an empty Env map.
C30_ValidationRoundTrip ==
    (vj.at = "decoded" /\ (PluginShaped(vj.V) \/ NoEmptyEnv(vj.V))) =>
        /\ vj.out = vj.V
        /\ Len(vj.out.Commands.items) = Len(vj.V.Commands.items)
        /\ \A i \in 1..Len(vj.V.Commands.items) :
              vj.out.Commands.items[i] = vj.V.Commands.items[i]

\* a spec of the plugins' shape with two different commands was decoded
C30_Witness ==
    /\ vj.at = "decoded"
    /\ PluginShaped(vj.V)
    /\ Len(vj.V.Commands.items) = 2
    /\ vj.V.Commands.items[1] # vj.V.Commands.items[2]
    /\ vj.V.Commands.items[1].Cwd = "/repo"
    /\ vj.out.Commands.items[1] = vj.V.Commands.items[1]

\* the tool whose plugin planned row i (the tool enters the fingerprint)
ToolOf(i) == tasks[i].fingerprint[1]

\* the rows a checkpoint pass inserted: the last ones of the table
CheckpointRows == {i \in 1..Len(tasks) : i > Len(tasks) - inserted}

\* C31: coverage work comes after test-failure work.  A ClaimNextTask
\* that returns a coverage task (priority 50) of the run does so only when
\* no pytest task (priority 100) of the run is queued, the pytest tasks a
\* checkpoint pass inserted included.
C31_CoverageAfterFixes ==
    [][\A w \in Workers :
          (/\ ClaimReturnsTask(w)
           /\ ToolOf(task'[w]) = "coverage") =>
             /\ tasks[task'[w]].priority = CoveragePriority
             /\ ~\E j \in QueuedRunRows :
                    ToolOf(j) = "pytest" /\ tasks[j].priority = PytestPriority
             /\ ~\E j \in 1..Len(tasks') :
                    /\ tasks'[j].run_id = RunID /\ tasks'[j].status = "queued"
                    /\ tasks'[j].fingerprint[1] = "pytest"]_vars

\* C31 witness: a worker holds a coverage task it was returned, and a
\* pytest task that a checkpoint pass inserted has been claimed before it.
C31_Witness ==
    \E w \in Workers :
        /\ claimResult[w] = "task" /\ pc[w] = "attempt"
        /\ ToolOf(task[w]) = "coverage"
        /\ \E j \in CheckpointRows :
              /\ ToolOf(j) = "pytest" /\ tasks[j].run_id = RunID
              /\ tasks[j].status # "queued"

\* C32: a lost claim returns no task.  A ClaimNextTask that returns a
\* task has itself moved that row from queued to running and set its
\* claimed_by in the same step; a claimant whose transaction lost does not
\* get the task and exits with the error; and a worker that creates an
\* attempt creates it for a task that names the worker as its claimant.
C32_LostClaimReturnsNothing ==
    [][\A w \in Workers :
          /\ ClaimReturnsTask(w) =>
                /\ tasks[task'[w]].status = "queued"
                /\ tasks'[task'[w]].status = "running"
                /\ tasks'[task'[w]].claimed_by = WorkerID(w)
          /\ (/\ pc[w] = "claim_update" /\ pc'[w] # "claim_update"
              /\ tasks[task[w]].status # "queued") =>
                /\ claimResult'[w] = "error"
                /\ task'[w] = 0
                /\ pc'[w] = "exited"
                /\ tasks' = tasks /\ attempts' = attempts
          /\ (pc[w] = "attempt" /\ pc'[w] = "prepare") =>
                /\ Len(attempts') = Len(attempts) + 1
                /\ attempts'[Len(attempts')].task_id = task[w]
                /\ tasks[task[w]].claimed_by = WorkerID(w)
                /\ ~\E v \in Workers \ {w} :
                       tasks[task[w]].claimed_by = WorkerID(v)]_vars

\* C32 witness: a worker has created the attempt of the run's only task,
\* which it claimed, while the other, which had selected that row too,
\* lost and created no attempt.
C32_Witness ==
    \E w1, w2 \in Workers :
        /\ w1 # w2
        /\ pc[w1] = "prepare" /\ tasks[task[w1]].claimed_by = WorkerID(w1)
        /\ claimResult[w2] = "error" /\ pc[w2] = "exited"
        /\ Len(attempts) = 1 /\ attempts[1].task_id = task[w1]
        /\ RunRows = {task[w1]}

\* the steps of one iteration of runWorker, in their order: the claim (its
\* SELECT, its UPDATE), CreateAttempt, PrepareWorkspace, validationSpec,
\* Agent.Invoke, runValidation with FinishAttempt, UpdateTaskStatus,
\* FinalizeWorkspace, ShouldRun
WorkerSteps ==
    <<"claim", "claim_update", "attempt", "prepare", "parse", "agent",
      "validate", "update", "finalize", "gate">>

\* where a worker may be after a step that took it from a given place:
\* at the next step of the sequence; after the gate in the pass or back at
\* the claim; out of the loop from a claim that returned nothing or an
\* error and from the three failure exits
NextStepOf(at) ==
    CASE at = "claim"         -> {"claim_update", "exited"}
      [] at = "claim_update"  -> {"attempt", "exited"}
      [] at = "attempt"       -> {"prepare", "exited"}
      [] at = "prepare"       -> {"parse", "fail_finish"}
      [] at = "parse"         -> {"agent", "fail_finish"}
      [] at = "fail_finish"   -> {"exited"}
      [] at = "gate"          -> {"claim", "ckpt_pytest"}
      [] at = "ckpt_pytest"   -> {"ckpt_coverage", "claim"}
      [] at = "ckpt_coverage" -> {"claim"}
      [] at = "exited"        -> {}
      [] OTHER -> {WorkerSteps[i + 1] :
                     i \in {k \in 1..(Len(WorkerSteps) - 1) : WorkerSteps[k] = at}}

\* the tasks that name worker w as claimant and are still running
HeldBy(w) ==
    {t \in 1..Len(tasks) :
        tasks[t].claimed_by = WorkerID(w) /\ tasks[t].status = "running"}

C34_WorkersStartedAndAwaited ==
    /\ \A k \in 1..Len(ex.ids) :
          /\ ex.ids[k] # ""
          /\ \A l \in 1..Len(ex.ids) : ex.ids[k] = ex.ids[l] => k = l
    /\ ex.at \in {"wait", "returned"} =>
          /\ Len(ex.goroutine) = IF ex.MaxWorkers > 1 THEN ex.MaxWorkers ELSE 1
          /\ Len(ex.ids) = Len(ex.goroutine)
    /\ ex.at = "returned" =>
          \A k \in 1..Len(ex.goroutine) : ex.goroutine[k] = "exited"

\* C34 witness: a call with max_workers above one has returned, with as
\* many workers started as configured.
C34_Witness ==
    /\ ex.at = "returned"
    /\ ex.MaxWorkers > 1
    /\ Len(ex.ids) = ex.MaxWorkers

\* C35: a batch insert is all or nothing.  While the transaction of an
\* InsertFindings or InsertTasks is open the tables are as they were at
\* the call; when the call has returned an error they still are, however
\* many rows of the batch had been inserted; when it has returned nil the
\* table of the batch holds the rows it had and all rows of the batch, in
\* order, and the other table is as it was.
C35_BatchAllOrNothing ==
    /\ ins.at \in {"called", "begun"} =>
          tasks = ins.before.tasks /\ findings = ins.before.findings
    /\ (ins.at = "returned" /\ ins.k > 0 /\ ins.res = "error") =>
          tasks = ins.before.tasks /\ findings = ins.before.findings
    /\ (ins.at = "returned" /\ ins.k > 0 /\ ins.res = "nil") =>
          IF ins.kind = "tasks"
          THEN /\ Len(tasks) = Len(ins.before.tasks) + ins.k
               /\ SubSeq(tasks, 1, Len(ins.before.tasks)) = ins.before.tasks
               /\ \A i \in 1..ins.k :
                     tasks[Len(ins.before.tasks) + i].fingerprint = hashTask("pytest", i)
               /\ findings = ins.before.findings
          ELSE /\ findings = ins.before.findings + ins.k
               /\ tasks = ins.before.tasks

\* C35 witness: an InsertTasks of two records has returned an error after
\* its first record was inserted, on a store that holds the rows of an
\* earlier batch that was committed.
C35_Witness ==
    /\ ins.at = "returned" /\ ins.res = "error"
    /\ ins.kind = "tasks" /\ ins.k = 2 /\ ins.pending = 1
    /\ txs.committed > 0
    /\ tasks # <<>>

\* C36: a CreateAttempt that fails is fatal for the task only.  The step
\* by which a worker leaves a failed CreateAttempt marks the task blocked,
\* creates no attempt and takes the worker neither into the agent nor
\* into validation; and when rows of the run are still queued the pool
\* keeps a worker to process them.
C36_AttemptErrorLocal ==
    [][\A w \in Workers :
          (pc[w] = "attempt" /\ pc'[w] \notin {"attempt", "prepare"}) =>
             /\ tasks'[task[w]].status = "blocked"
             /\ attempts' = attempts
             /\ pc'[w] \notin {"agent", "validate"}
             /\ QueuedRunRows # {} => \E v \in Workers : pc'[v] # "exited"]_vars

\* C37: a prepared workspace is finalized before its worker moves on or
\* exits.  Every workspace that is prepared and not finalized belongs to
\* the task a worker holds, that worker being between PrepareWorkspace
\* and FinalizeWorkspace of its iteration.
C37_WorkspaceFinalized ==
    \A t \in workspaces :
        \E w \in Workers :
            /\ task[w] = t
            /\ pc[w] \in {"parse", "agent", "validate", "update", "finalize", "fail_finish"}

\* C38: a task in a terminal status has no running attempt.  In every
\* state, each attempt of a task that is succeeded or blocked has been
\* finished.
C38_TerminalTaskAttemptsFinished ==
    \A t \in 1..Len(tasks) :
        tasks[t].status \in {"succeeded", "blocked"} =>
            \A a \in AttemptsOf(t) : attempts[a].status # "running"

\* the rows of the run that are running
RunningRunRows ==
    {i \in 1..Len(tasks) : tasks[i].run_id = RunID /\ tasks[i].status = "running"}

\* C39: the running tasks of the run are never more than the workers, also
\* when FinishAttempt or UpdateTaskStatus fail and the worker ignores it.
C39_RunningAtMostWorkers == Cardinality(RunningRunRows) <= NumWorkers

\* the workers that are inside runCheckpoint
InPass == {c \in GateCallers : gpc[c] = "pass"}

\* C40: at most one checkpoint pass is in progress at any time, however
\* long a pass lasts.
C40_OnePassAtATime == Cardinality(InPass) <= 1

====
